---- MODULE Spec2Model ----
(***************************************************************************)
(* Model of the order, payment, address, cart, catalogue and account        *)
(* handlers of the storefront backend.  The relational tables are the state; every handler is a       *)
(* sequence of database statements (one per `await`), written here as a    *)
(* step function over the tables and the handler's local variables.  A     *)
(* request served alone runs its steps to completion (Run); concurrent     *)
(* requests interleave the same steps.                                     *)
(***************************************************************************)
EXTENDS Integers, Sequences, FiniteSets, TLC

\* ------------------------------------------------------------------ bounds
MaxStock == 3
MaxQty == 2
MaxItems == 2
MaxOrders == 2
MaxTime == 1
MaxAddresses == 3
ConcMaxItems == 1
MaxProducts == 3
MaxCategories == 2
MaxCartItems == 3
MaxUsers == 3
\* tokens issued in a run
MaxTokens == 3
\* payment rows after which no further processPayment request arrives
MaxPayments == 3
\* the heaviest shipment priced, in kilograms
MaxKilos == 2

\* ------------------------------------------------------------- value sets
Users == {1, 2}
Products == {1, 2}
\* product ids a request can name: the products and one id more, which has no
\* row until createProduct inserts a third product
ProductIds == Products \cup {3}
\* prices and weights (grams) are whole numbers, for which parseFloat, the
\* float arithmetic of the handlers and the numeric columns are exact
Prices == {1, 2}
SeedPrice(p) == p
SeedWeight(p) == IF p = 1 THEN 500 ELSE 1500
Times == 1..MaxTime

OrderStatuses == {"pending", "paid", "processing", "shipped", "delivered", "cancelled"}
PaymentStatuses == {"pending", "paid", "failed", "cancelled"}
\* transaction_status values a gateway notification can carry; "refund" stands
\* for every value the switch does not name
TransactionStatuses ==
  {"capture", "settlement", "pending", "cancel", "expire", "deny", "failure", "refund"}

NoError == "none"
\* SQL NULL / a JavaScript null: the empty tuple; a present value v is <<v>>
Null == <<>>

\* ------------------------------------------------------------------ state
VARIABLES
  usersTable,              \* [rows: id -> [email, password_hash], serial]
  categoriesTable,         \* [rows: id -> [name], serial]
  productsTable,           \* product id -> [stock_quantity, is_active, price,
                           \*   weight, category_id]
  customerAddressesTable,  \* sequence of [user_id, is_default], id = index
  cartItemsTable,          \* [rows: id -> [user_id, product_id, quantity],
                           \*   serial]
  ordersTable,             \* sequence of [user_id, status, total_amount,
                           \*   shipping_cost], id = index
  orderItemsTable,         \* sequence of [order_id, product_id, quantity,
                           \*   unit_price, total_price]
  paymentsTable,           \* sequence of [order_id, payment_status, amount,
                           \*   midtrans_transaction_id, paid_at], id = index
  last,                    \* the request just served alone: its operation,
                           \*   input, outcome and the tables before it
  procs,                   \* concurrent requests: the locals of each
  issuedTokens             \* every token register or login has returned,
                           \*   with the user it was returned for

tables == <<usersTable, categoriesTable, productsTable, customerAddressesTable,
            cartItemsTable, ordersTable, orderItemsTable, paymentsTable>>
vars == <<usersTable, categoriesTable, productsTable, customerAddressesTable,
          cartItemsTable, ordersTable, orderItemsTable, paymentsTable, last, procs,
          issuedTokens>>

\* the tables as one value
DB ==
  [users |-> usersTable, categories |-> categoriesTable,
   products |-> productsTable, addresses |-> customerAddressesTable,
   cartItems |-> cartItemsTable,
   orders |-> ordersTable, orderItems |-> orderItemsTable,
   payments |-> paymentsTable]

SetDB(db) ==
  /\ usersTable' = db.users
  /\ categoriesTable' = db.categories
  /\ cartItemsTable' = db.cartItems
  /\ productsTable' = db.products
  /\ customerAddressesTable' = db.addresses
  /\ ordersTable' = db.orders
  /\ orderItemsTable' = db.orderItems
  /\ paymentsTable' = db.payments

\* a table whose rows can be deleted: the rows by id, and the last id the
\* serial column has given out
EmptyTable == [rows |-> <<>>, serial |-> 0]

\* the id an insert gives its row
NextId(t) == t.serial + 1

Insert(t, row) ==
  [rows |-> [k \in DOMAIN t.rows \cup {NextId(t)} |->
               IF k = NextId(t) THEN row ELSE t.rows[k]],
   serial |-> NextId(t)]

Delete(t, ids) ==
  [t EXCEPT !.rows = [k \in DOMAIN t.rows \ ids |-> t.rows[k]]]

\* `Buffer.from(password + JWT_SECRET).toString('base64')`: one hash per
\* password, different for different passwords
hashPassword(password) == <<"base64", password, "JWT_SECRET">>

\* the accounts of the two customers
SeedUsers ==
  Insert(Insert(EmptyTable,
                [email |-> "a@shop", password_hash |-> hashPassword("secret-a")]),
         [email |-> "b@shop", password_hash |-> hashPassword("secret-b")])

\* the category of the seed products
SeedCategories == Insert(EmptyTable, [name |-> "Electronics"])

\* the shop with its products, their category and the customers' accounts,
\* before any address, cart item, order or payment exists
EmptyDB(active) ==
  [users |-> SeedUsers,
   categories |-> SeedCategories,
   products |-> [p \in Products |->
                   [stock_quantity |-> MaxStock, is_active |-> active[p],
                    price |-> SeedPrice(p), weight |-> SeedWeight(p),
                    category_id |-> 1]],
   addresses |-> <<>>, cartItems |-> EmptyTable,
   orders |-> <<>>, orderItems |-> <<>>, payments |-> <<>>]

\* ------------------------------------------------------------ step helpers
SetMin(S) == CHOOSE x \in S : \A y \in S : x <= y

\* the handler goes on to its next statement
Goto(db, l, pc) == [db |-> db, l |-> [l EXCEPT !.pc = pc]]

\* `throw new Error(msg)`: the handler ends, nothing further is written
Throw(db, l, msg) == [db |-> db, l |-> [l EXCEPT !.pc = "done", !.error = msg]]

\* `return ...`
Return(db, l) == [db |-> db, l |-> [l EXCEPT !.pc = "done"]]

\* ------------------------------------------------------------ createOrder
\* input: [user_id, shipping_address_id, items: Seq([product_id, quantity])]
createOrderStart(input) ==
  [op |-> "createOrder", pc |-> "selectAddress", input |-> input,
   error |-> NoError, productMap |-> <<>>, totalAmount |-> 0, shippingCost |-> 0,
   order_id |-> 0, i |-> 0]

\* the validation loop without its stock comparison
FirstInvalidItem_NoStockCheck(items, productMap) ==
  LET bad == {i \in 1..Len(items) : items[i].product_id \notin DOMAIN productMap}
  IN IF bad = {} THEN 0 ELSE SetMin(bad)

\* first index of the validation loop that throws, 0 when none does
FirstInvalidItem(items, productMap) ==
  LET bad == {i \in 1..Len(items) :
                \/ items[i].product_id \notin DOMAIN productMap
                \/ productMap[items[i].product_id].stock_quantity < items[i].quantity}
  IN IF bad = {} THEN 0 ELSE SetMin(bad)

RECURSIVE TotalOf(_, _, _)
\* the sum over the items of quantity times the product's price or weight
TotalOf(items, productMap, field) ==
  IF items = <<>> THEN 0
  ELSE productMap[Head(items).product_id][field] * Head(items).quantity
         + TotalOf(Tail(items), productMap, field)

\* Math.ceil(a / b) for a >= 0, b > 0
CeilDiv(a, b) == (a + b - 1) \div b

\* `Math.max(10, Math.ceil(totalWeight / 1000) * 5)`
OrderShippingCost(totalWeight) ==
  LET byWeight == CeilDiv(totalWeight, 1000) * 5
  IN IF byWeight > 10 THEN byWeight ELSE 10

\* an order item priced at the price the product was first listed at
UnitPrice_SeedPrice(db, l, item) == SeedPrice(item.product_id)

\* `parseFloat(product.price)` of the product read at validation time
UnitPrice(db, l, item) == l.productMap[item.product_id].price

\* a decrement of the stock the row holds when the update runs
NewStockOnOrder_CurrentRow(db, l, item) ==
  db.products[item.product_id].stock_quantity - item.quantity

\* the stock written for an item: the stock read at validation time minus the
\* item's quantity
NewStockOnOrder(db, l, item) ==
  l.productMap[item.product_id].stock_quantity - item.quantity

createOrderStep(db, l) ==
  CASE l.pc = "selectAddress" ->
         LET shippingAddress ==
               {a \in DOMAIN db.addresses :
                  /\ a = l.input.shipping_address_id
                  /\ db.addresses[a].user_id = l.input.user_id}
         IN IF shippingAddress = {}
            THEN Throw(db, l, "Shipping address not found or does not belong to user")
            ELSE Goto(db, l, "selectProducts")
    [] l.pc = "selectProducts" ->
         LET productMap == [p \in {q \in DOMAIN db.products : db.products[q].is_active}
                              |-> db.products[p]]
             bad == FirstInvalidItem(l.input.items, productMap)
             l2 == [l EXCEPT !.productMap = productMap]
             totalAmount == TotalOf(l.input.items, productMap, "price")
             shippingCost ==
               OrderShippingCost(TotalOf(l.input.items, productMap, "weight"))
         IN IF bad = 0
            THEN Goto(db, [l2 EXCEPT !.totalAmount = totalAmount,
                                     !.shippingCost = shippingCost],
                      "insertOrder")
            ELSE IF l.input.items[bad].product_id \notin DOMAIN productMap
            THEN Throw(db, l2, "Product not found or inactive")
            ELSE Throw(db, l2, "Insufficient stock")
    [] l.pc = "insertOrder" ->
         LET order == [user_id |-> l.input.user_id, status |-> "pending",
                       total_amount |-> l.totalAmount + l.shippingCost,
                       shipping_cost |-> l.shippingCost]
             db2 == [db EXCEPT !.orders = Append(@, order)]
             l2 == [l EXCEPT !.order_id = Len(db2.orders), !.i = 1]
         IN IF Len(l.input.items) = 0 THEN Return(db2, l2)
            ELSE Goto(db2, l2, "insertItem")
    [] l.pc = "insertItem" ->
         LET item == l.input.items[l.i]
             unitPrice == UnitPrice(db, l, item)
             row == [order_id |-> l.order_id, product_id |-> item.product_id,
                     quantity |-> item.quantity, unit_price |-> unitPrice,
                     total_price |-> unitPrice * item.quantity]
         IN Goto([db EXCEPT !.orderItems = Append(@, row)], l, "updateStock")
    [] l.pc = "updateStock" ->
         LET item == l.input.items[l.i]
             db2 == [db EXCEPT !.products[item.product_id].stock_quantity =
                                  NewStockOnOrder(db, l, item)]
             l2 == [l EXCEPT !.i = @ + 1]
         IN IF l.i = Len(l.input.items) THEN Return(db2, l2)
            ELSE Goto(db2, l2, "insertItem")

\* ------------------------------------------------------------ cancelOrder
\* input: [orderId, userId]
cancelOrderStart(input) ==
  [op |-> "cancelOrder", pc |-> "selectOrder", input |-> input,
   error |-> NoError, orderItems |-> <<>>, i |-> 0, currentStock |-> 0]

\* the restore with the sign of the quantity slipped
RestoredStock_Subtract(l, item) == l.currentStock - item.quantity

\* the stock written back for one order item: the stock just read plus the
\* item's quantity
RestoredStock(l, item) == l.currentStock + item.quantity

\* a status check that also lets paid orders through
CanCancel_PaidToo(order) == order.status \in {"pending", "paid"}

\* `order.status !== 'pending'` throws
CanCancel(order) == order.status = "pending"

cancelOrderStep(db, l) ==
  CASE l.pc = "selectOrder" ->
         LET existingOrders ==
               {o \in DOMAIN db.orders :
                  o = l.input.orderId /\ db.orders[o].user_id = l.input.userId}
         IN IF existingOrders = {}
            THEN Throw(db, l, "Order not found or does not belong to user")
            ELSE IF ~CanCancel(db.orders[l.input.orderId])
            THEN Throw(db, l, "Only pending orders can be cancelled")
            ELSE Goto(db, l, "selectItems")
    [] l.pc = "selectItems" ->
         LET orderItems ==
               SelectSeq(db.orderItems, LAMBDA r : r.order_id = l.input.orderId)
             l2 == [l EXCEPT !.orderItems = orderItems, !.i = 1]
         IN IF Len(orderItems) = 0 THEN Goto(db, l2, "updateOrder")
            ELSE Goto(db, l2, "selectProduct")
    [] l.pc = "selectProduct" ->
         LET item == l.orderItems[l.i]
         IN Goto(db, [l EXCEPT !.currentStock =
                                  db.products[item.product_id].stock_quantity],
                 "updateProduct")
    [] l.pc = "updateProduct" ->
         LET item == l.orderItems[l.i]
             db2 == [db EXCEPT !.products[item.product_id].stock_quantity =
                                  RestoredStock(l, item)]
             l2 == [l EXCEPT !.i = @ + 1]
         IN IF l.i = Len(l.orderItems) THEN Goto(db2, l2, "updateOrder")
            ELSE Goto(db2, l2, "selectProduct")
    [] l.pc = "updateOrder" ->
         Return([db EXCEPT !.orders =
                   [o \in DOMAIN db.orders |->
                      IF o = l.input.orderId
                      THEN [db.orders[o] EXCEPT !.status = "cancelled"]
                      ELSE db.orders[o]]], l)

\* ------------------------------------------------------ updateOrderStatus
\* input: [id, status]
updateOrderStatusStart(input) ==
  [op |-> "updateOrderStatus", pc |-> "selectOrder", input |-> input,
   error |-> NoError]

updateOrderStatusStep(db, l) ==
  CASE l.pc = "selectOrder" ->
         IF l.input.id \notin DOMAIN db.orders
         THEN Throw(db, l, "Order not found")
         ELSE Goto(db, l, "updateOrder")
    [] l.pc = "updateOrder" ->
         Return([db EXCEPT !.orders =
                   [o \in DOMAIN db.orders |->
                      IF o = l.input.id
                      THEN [db.orders[o] EXCEPT !.status = l.input.status]
                      ELSE db.orders[o]]], l)

\* --------------------------------------------------------- processPayment
\* input: [order_id, now]; now is the value Date.now() returns to the handler
processPaymentStart(input) ==
  [op |-> "processPayment", pc |-> "selectOrder", input |-> input,
   error |-> NoError, total_amount |-> 0]

\* `MT-${Date.now()}-${input.order_id}`
TransactionId(now, order_id) == <<now, order_id>>

\* an amount that leaves the shipping cost out
PaymentAmount_WithoutShipping(order) == order.total_amount - order.shipping_cost

\* `amount: order.total_amount`, the column value as the database returned it
PaymentAmount(order) == order.total_amount

\* a duplicate check that does not count failed payments
ExistingPayments_IgnoreFailed(db, order_id) ==
  {k \in DOMAIN db.payments :
     /\ db.payments[k].order_id = order_id
     /\ db.payments[k].payment_status # "failed"}

\* the rows the duplicate check of processPayment finds
ExistingPayments(db, order_id) ==
  {k \in DOMAIN db.payments : db.payments[k].order_id = order_id}

processPaymentStep(db, l) ==
  CASE l.pc = "selectOrder" ->
         IF l.input.order_id \notin DOMAIN db.orders
         THEN Throw(db, l, "Order not found")
         ELSE Goto(db, [l EXCEPT !.total_amount =
                                   PaymentAmount(db.orders[l.input.order_id])],
                   "selectPayments")
    [] l.pc = "selectPayments" ->
         IF ExistingPayments(db, l.input.order_id) # {}
         THEN Throw(db, l, "Payment already exists for order")
         ELSE Goto(db, l, "insertPayment")
    [] l.pc = "insertPayment" ->
         LET payment ==
               [order_id |-> l.input.order_id, payment_status |-> "pending",
                amount |-> l.total_amount,
                midtrans_transaction_id |->
                  TransactionId(l.input.now, l.input.order_id),
                paid_at |-> Null]
         IN Return([db EXCEPT !.payments = Append(@, payment)], l)

\* ---------------------------------------------- handlePaymentNotification
\* input: [transaction_id, transaction_status, now]; transaction_id is Null
\* when the notification carries none
handlePaymentNotificationStart(input) ==
  [op |-> "handlePaymentNotification", pc |-> "selectPayment", input |-> input,
   error |-> NoError, payment_id |-> 0, order_id |-> 0, paymentStatus |-> "pending",
   paidAt |-> Null]

\* the switch with the 'expire' label missing, so that it falls to the default
MapTransactionStatus_NoExpire(transaction_status) ==
  CASE transaction_status \in {"capture", "settlement"} -> "paid"
    [] transaction_status = "pending" -> "pending"
    [] transaction_status = "cancel" -> "cancelled"
    [] transaction_status \in {"deny", "failure"} -> "failed"
    [] OTHER -> "pending"

\* the switch on transaction_status
MapTransactionStatus(transaction_status) ==
  CASE transaction_status \in {"capture", "settlement"} -> "paid"
    [] transaction_status = "pending" -> "pending"
    [] transaction_status \in {"cancel", "expire"} -> "cancelled"
    [] transaction_status \in {"deny", "failure"} -> "failed"
    [] OTHER -> "pending"

\* an order update that is skipped only for pending payments
UpdatesOrder_UnlessPending(paymentStatus) == paymentStatus # "pending"

\* whether the handler goes on to update the order
UpdatesOrder(paymentStatus) == paymentStatus = "paid"

handlePaymentNotificationStep(db, l) ==
  CASE l.pc = "selectPayment" ->
         IF l.input.transaction_id = Null
         THEN Throw(db, l, "Missing transaction_id in notification")
         ELSE LET payments ==
                    {k \in DOMAIN db.payments :
                       <<db.payments[k].midtrans_transaction_id>> =
                         l.input.transaction_id}
              IN IF payments = {}
                 THEN Throw(db, l, "Payment not found for transaction ID")
                 ELSE LET k == SetMin(payments)
                          paymentStatus ==
                            MapTransactionStatus(l.input.transaction_status)
                      IN Goto(db,
                              [l EXCEPT !.payment_id = k,
                                        !.order_id = db.payments[k].order_id,
                                        !.paymentStatus = paymentStatus,
                                        !.paidAt = IF paymentStatus = "paid"
                                                   THEN <<l.input.now>> ELSE Null],
                              "updatePayment")
    [] l.pc = "updatePayment" ->
         LET db2 == [db EXCEPT !.payments =
                       [k \in DOMAIN db.payments |->
                          IF k = l.payment_id
                          THEN [db.payments[k] EXCEPT
                                  !.payment_status = l.paymentStatus,
                                  !.paid_at = l.paidAt]
                          ELSE db.payments[k]]]
         IN IF UpdatesOrder(l.paymentStatus) THEN Goto(db2, l, "updateOrder")
            ELSE Return(db2, l)
    [] l.pc = "updateOrder" ->
         Return([db EXCEPT !.orders =
                   [o \in DOMAIN db.orders |->
                      IF o = l.order_id
                      THEN [db.orders[o] EXCEPT !.status = "paid"]
                      ELSE db.orders[o]]], l)

\* -------------------------------------------------------- address handlers
\* a handler that leaves the other defaults in place
ClearDefaults_None(addresses, u) == addresses

\* the rows of user u lose their default flag
ClearDefaults(addresses, u) ==
  [a \in DOMAIN addresses |->
     IF addresses[a].user_id = u
     THEN [addresses[a] EXCEPT !.is_default = FALSE]
     ELSE addresses[a]]

\* input: [user_id, is_default]
createAddressStart(input) ==
  [op |-> "createAddress", pc |-> "selectUser", input |-> input,
   error |-> NoError, address_id |-> 0]

createAddressStep(db, l) ==
  CASE l.pc = "selectUser" ->
         IF l.input.user_id \notin Users THEN Throw(db, l, "User not found")
         ELSE IF l.input.is_default THEN Goto(db, l, "clearDefaults")
         ELSE Goto(db, l, "insertAddress")
    [] l.pc = "clearDefaults" ->
         Goto([db EXCEPT !.addresses = ClearDefaults(@, l.input.user_id)], l,
              "insertAddress")
    [] l.pc = "insertAddress" ->
         LET row == [user_id |-> l.input.user_id, is_default |-> l.input.is_default]
             db2 == [db EXCEPT !.addresses = Append(@, row)]
         IN Return(db2, [l EXCEPT !.address_id = Len(db2.addresses)])

\* input: [id, is_default]; is_default is Null when the field is left out
updateAddressStart(input) ==
  [op |-> "updateAddress", pc |-> "selectAddress", input |-> input,
   error |-> NoError, user_id |-> 0]

updateAddressStep(db, l) ==
  CASE l.pc = "selectAddress" ->
         IF l.input.id \notin DOMAIN db.addresses
         THEN Throw(db, l, "Address not found")
         ELSE LET l2 == [l EXCEPT !.user_id = db.addresses[l.input.id].user_id]
              IN IF l.input.is_default = <<TRUE>> THEN Goto(db, l2, "clearDefaults")
                 ELSE Goto(db, l2, "updateAddress")
    [] l.pc = "clearDefaults" ->
         Goto([db EXCEPT !.addresses = ClearDefaults(@, l.user_id)], l,
              "updateAddress")
    [] l.pc = "updateAddress" ->
         IF l.input.is_default = Null THEN Return(db, l)
         ELSE Return([db EXCEPT !.addresses[l.input.id].is_default =
                                   l.input.is_default[1]], l)

\* input: [addressId, userId]
setDefaultAddressStart(input) ==
  [op |-> "setDefaultAddress", pc |-> "selectAddress", input |-> input,
   error |-> NoError]

setDefaultAddressStep(db, l) ==
  CASE l.pc = "selectAddress" ->
         IF l.input.addressId \notin DOMAIN db.addresses
         THEN Throw(db, l, "Address not found")
         ELSE IF db.addresses[l.input.addressId].user_id # l.input.userId
         THEN Throw(db, l, "Address does not belong to this user")
         ELSE Goto(db, l, "clearDefaults")
    [] l.pc = "clearDefaults" ->
         Goto([db EXCEPT !.addresses = ClearDefaults(@, l.input.userId)], l,
              "setDefault")
    [] l.pc = "setDefault" ->
         Return([db EXCEPT !.addresses[l.input.addressId].is_default = TRUE], l)

\* ---------------------------------------------------------- cart handlers
\* a product check that does not look at is_active
ActiveProducts_AnyProduct(db, product_id) ==
  {p \in DOMAIN db.products : p = product_id}

\* the rows `where id = product_id and is_active = true` selects
ActiveProducts(db, product_id) ==
  {p \in DOMAIN db.products : p = product_id /\ db.products[p].is_active}

\* a lookup that never finds the row of the pair
ExistingCartItems_None(db, user_id, product_id) == {}

\* the cart rows of a (user, product) pair
ExistingCartItems(db, user_id, product_id) ==
  {k \in DOMAIN db.cartItems.rows :
     /\ db.cartItems.rows[k].user_id = user_id
     /\ db.cartItems.rows[k].product_id = product_id}

\* input: [user_id, product_id, quantity]
addToCartStart(input) ==
  [op |-> "addToCart", pc |-> "selectUser", input |-> input, error |-> NoError,
   existing_id |-> 0, existing_quantity |-> 0, cart_item_id |-> 0]

addToCartStep(db, l) ==
  CASE l.pc = "selectUser" ->
         IF l.input.user_id \notin DOMAIN db.users.rows
         THEN Throw(db, l, "User not found")
         ELSE Goto(db, l, "selectProduct")
    [] l.pc = "selectProduct" ->
         IF ActiveProducts(db, l.input.product_id) = {}
         THEN Throw(db, l, "Product not found or not active")
         ELSE Goto(db, l, "selectCartItem")
    [] l.pc = "selectCartItem" ->
         LET existingCartItem ==
               ExistingCartItems(db, l.input.user_id, l.input.product_id)
         IN IF existingCartItem # {}
            THEN LET k == SetMin(existingCartItem)
                 IN Goto(db, [l EXCEPT !.existing_id = k,
                                       !.existing_quantity =
                                          db.cartItems.rows[k].quantity],
                         "updateCartItem")
            ELSE Goto(db, l, "insertCartItem")
    [] l.pc = "updateCartItem" ->
         \* the row may have been deleted since it was read
         IF l.existing_id \notin DOMAIN db.cartItems.rows THEN Return(db, l)
         ELSE Return([db EXCEPT !.cartItems.rows[l.existing_id].quantity =
                                   l.existing_quantity + l.input.quantity],
                     [l EXCEPT !.cart_item_id = l.existing_id])
    [] l.pc = "insertCartItem" ->
         LET row == [user_id |-> l.input.user_id, product_id |-> l.input.product_id,
                     quantity |-> l.input.quantity]
         IN Return([db EXCEPT !.cartItems = Insert(@, row)],
                   [l EXCEPT !.cart_item_id = NextId(db.cartItems)])

\* input: [id, quantity]
updateCartItemStart(input) ==
  [op |-> "updateCartItem", pc |-> "selectCartItem", input |-> input,
   error |-> NoError]

updateCartItemStep(db, l) ==
  CASE l.pc = "selectCartItem" ->
         IF l.input.id \notin DOMAIN db.cartItems.rows
         THEN Throw(db, l, "Cart item not found")
         ELSE Goto(db, l, "updateCartItem")
    [] l.pc = "updateCartItem" ->
         IF l.input.id \notin DOMAIN db.cartItems.rows THEN Return(db, l)
         ELSE Return([db EXCEPT !.cartItems.rows[l.input.id].quantity =
                                   l.input.quantity], l)

\* a lookup by id alone
OwnCartItems_AnyUser(db, cartItemId, userId) ==
  {k \in DOMAIN db.cartItems.rows : k = cartItemId}

\* the rows `where id = cartItemId and user_id = userId` selects
OwnCartItems(db, cartItemId, userId) ==
  {k \in DOMAIN db.cartItems.rows :
     k = cartItemId /\ db.cartItems.rows[k].user_id = userId}

\* input: [cartItemId, userId]
removeCartItemStart(input) ==
  [op |-> "removeCartItem", pc |-> "selectCartItem", input |-> input,
   error |-> NoError]

removeCartItemStep(db, l) ==
  CASE l.pc = "selectCartItem" ->
         IF OwnCartItems(db, l.input.cartItemId, l.input.userId) = {}
         THEN Throw(db, l, "Cart item not found or does not belong to user")
         ELSE Goto(db, l, "deleteCartItem")
    [] l.pc = "deleteCartItem" ->
         Return([db EXCEPT !.cartItems = Delete(@, {l.input.cartItemId})], l)

\* input: [userId]
clearCartStart(input) ==
  [op |-> "clearCart", pc |-> "selectUser", input |-> input, error |-> NoError]

clearCartStep(db, l) ==
  CASE l.pc = "selectUser" ->
         IF l.input.userId \notin DOMAIN db.users.rows
         THEN Throw(db, l, "User not found")
         ELSE Goto(db, l, "deleteCartItems")
    [] l.pc = "deleteCartItems" ->
         Return([db EXCEPT !.cartItems =
                   Delete(@, {k \in DOMAIN db.cartItems.rows :
                                db.cartItems.rows[k].user_id = l.input.userId})],
                l)

\* ----------------------------------------------------- catalogue handlers
\* what the database answers to a statement that would leave a row pointing
\* at a missing row
ForeignKeyViolation == "violates foreign key constraint"

\* input: [name]
createCategoryStart(input) ==
  [op |-> "createCategory", pc |-> "insertCategory", input |-> input,
   error |-> NoError, category_id |-> 0]

createCategoryStep(db, l) ==
  CASE l.pc = "insertCategory" ->
         Return([db EXCEPT !.categories = Insert(@, [name |-> l.input.name])],
                [l EXCEPT !.category_id = NextId(db.categories)])

\* a count of the active products of the category only
ProductCount_ActiveOnly(db, id) ==
  Cardinality({p \in DOMAIN db.products :
                 db.products[p].category_id = id /\ db.products[p].is_active})

\* `select count(*) from products where category_id = id`
ProductCount(db, id) ==
  Cardinality({p \in DOMAIN db.products : db.products[p].category_id = id})

\* input: [id]
deleteCategoryStart(input) ==
  [op |-> "deleteCategory", pc |-> "countProducts", input |-> input,
   error |-> NoError]

deleteCategoryStep(db, l) ==
  CASE l.pc = "countProducts" ->
         IF ProductCount(db, l.input.id) > 0
         THEN Throw(db, l, "Cannot delete category with existing products")
         ELSE Goto(db, l, "selectCategory")
    [] l.pc = "selectCategory" ->
         IF l.input.id \notin DOMAIN db.categories.rows
         THEN Throw(db, l, "Category not found")
         ELSE Goto(db, l, "deleteCategory")
    [] l.pc = "deleteCategory" ->
         \* products.category_id references categories.id
         IF \E p \in DOMAIN db.products : db.products[p].category_id = l.input.id
         THEN Throw(db, l, ForeignKeyViolation)
         ELSE Return([db EXCEPT !.categories = Delete(@, {l.input.id})], l)

\* input: [category_id, price, stock_quantity, weight, is_active]
createProductStart(input) ==
  [op |-> "createProduct", pc |-> "selectCategory", input |-> input,
   error |-> NoError, product_id |-> 0]

createProductStep(db, l) ==
  CASE l.pc = "selectCategory" ->
         IF l.input.category_id \notin DOMAIN db.categories.rows
         THEN Throw(db, l, "Category does not exist")
         ELSE Goto(db, l, "insertProduct")
    [] l.pc = "insertProduct" ->
         IF l.input.category_id \notin DOMAIN db.categories.rows
         THEN Throw(db, l, ForeignKeyViolation)
         ELSE LET row == [stock_quantity |-> l.input.stock_quantity,
                          is_active |-> l.input.is_active,
                          price |-> l.input.price, weight |-> l.input.weight,
                          category_id |-> l.input.category_id]
                  db2 == [db EXCEPT !.products = Append(@, row)]
              IN Return(db2, [l EXCEPT !.product_id = Len(db2.products)])

\* the fields of the request that are present, written over the row; a field
\* left out of the request is Null
UpdateValues(row, input) ==
  [f \in DOMAIN row |-> IF input[f] # Null THEN input[f][1] ELSE row[f]]

\* input: [id, price, stock_quantity, category_id, weight, is_active]
updateProductStart(input) ==
  [op |-> "updateProduct", pc |-> "selectProduct", input |-> input,
   error |-> NoError]

updateProductStep(db, l) ==
  CASE l.pc = "selectProduct" ->
         IF l.input.id \notin DOMAIN db.products
         THEN Throw(db, l, "Product not found")
         ELSE IF l.input.category_id # Null THEN Goto(db, l, "selectCategory")
         ELSE Goto(db, l, "updateProduct")
    [] l.pc = "selectCategory" ->
         IF l.input.category_id[1] \notin DOMAIN db.categories.rows
         THEN Throw(db, l, "Category does not exist")
         ELSE Goto(db, l, "updateProduct")
    [] l.pc = "updateProduct" ->
         IF /\ l.input.category_id # Null
            /\ l.input.category_id[1] \notin DOMAIN db.categories.rows
         THEN Throw(db, l, ForeignKeyViolation)
         ELSE Return([db EXCEPT !.products[l.input.id] =
                                   UpdateValues(@, l.input)],
                     l)

\* `updateProductInputSchema`: what the products.update route lets through to
\* updateProduct
updateProductInputSchema(input) ==
  /\ input.price = Null \/ input.price[1] > 0
  /\ input.stock_quantity = Null \/ input.stock_quantity[1] >= 0
  /\ input.weight = Null \/ input.weight[1] > 0

\* a stock update that checks nothing
RejectsQuantity_Never(quantity) == FALSE

\* `quantity < 0` throws
RejectsQuantity(quantity) == quantity < 0

\* input: [productId, quantity]
updateProductStockStart(input) ==
  [op |-> "updateProductStock", pc |-> "selectProduct", input |-> input,
   error |-> NoError]

updateProductStockStep(db, l) ==
  CASE l.pc = "selectProduct" ->
         IF l.input.productId \notin DOMAIN db.products
         THEN Throw(db, l, "Product not found")
         ELSE IF RejectsQuantity(l.input.quantity)
         THEN Throw(db, l, "Stock quantity cannot be negative")
         ELSE Goto(db, l, "updateProduct")
    [] l.pc = "updateProduct" ->
         Return([db EXCEPT !.products[l.input.productId].stock_quantity =
                             l.input.quantity],
                l)

\* ---------------------------------------------------------- refundPayment
\* a status check that lets pending payments through as well
CanRefund_PendingToo(payment) == payment.payment_status \in {"paid", "pending"}

\* `payment.payment_status !== 'paid'` throws
CanRefund(payment) == payment.payment_status = "paid"

\* `amount || paymentAmount`: the payment amount stands in for an amount that
\* is left out and for an amount of 0
RefundAmount(amount, paymentAmount) ==
  IF amount = Null \/ amount[1] = 0 THEN paymentAmount ELSE amount[1]

\* input: [paymentId, amount]; amount is Null when it is left out
refundPaymentStart(input) ==
  [op |-> "refundPayment", pc |-> "selectPayment", input |-> input,
   error |-> NoError, refundAmount |-> 0]

refundPaymentStep(db, l) ==
  CASE l.pc = "selectPayment" ->
         IF l.input.paymentId \notin DOMAIN db.payments
         THEN Throw(db, l, "Payment not found")
         ELSE LET payment == db.payments[l.input.paymentId]
                  paymentAmount == payment.amount
                  refundAmount == RefundAmount(l.input.amount, paymentAmount)
              IN IF ~CanRefund(payment)
                 THEN Throw(db, l, "Cannot refund a payment that is not paid")
                 ELSE IF refundAmount > paymentAmount
                 THEN Throw(db, l, "Refund amount cannot exceed payment amount")
                 ELSE IF refundAmount = paymentAmount
                 THEN Goto(db, [l EXCEPT !.refundAmount = refundAmount],
                           "updatePayment")
                 ELSE Return(db, [l EXCEPT !.refundAmount = refundAmount])
    [] l.pc = "updatePayment" ->
         Return([db EXCEPT !.payments[l.input.paymentId].payment_status =
                             "cancelled"], l)

\* ------------------------------------------------------- account handlers
\* what the database answers to a statement that would give two users one email
UniqueViolation == "violates unique constraint"

\* A token is the sequence of the parts its string has between the dots, and a
\* part is base64 of some content: of the JSON text of an object, <<"json", o>>,
\* or of any other text, <<"text", s>>.
JSONStringify(object) == <<"json", object>>

\* `JSON.parse`: the object a JSON text was written from, in a one-element
\* tuple; Null where JSON.parse throws
JSONParse(content) == IF content[1] = "json" THEN <<content[2]>> ELSE Null

Base64Encode(content) == <<"base64", content>>

\* `Buffer.from(part, 'base64').toString()`
Base64Decode(part) == part[2]

\* `${base64(JSON.stringify({userId, timestamp, nonce}))}.${base64(JWT_SECRET)}`
generateToken(userId, timestamp, nonce) ==
  <<Base64Encode(JSONStringify([userId |-> userId, timestamp |-> timestamp,
                                nonce |-> nonce])),
    Base64Encode(<<"text", "JWT_SECRET">>)>>

\* `decoded.f` used as a condition: the field is there and is not 0
Truthy(decoded, f) == f \in DOMAIN decoded /\ decoded[f] # 0

\* a validation that also wants the nonce to be truthy
ValidPayload_TruthyNonce(decoded) ==
  Truthy(decoded, "userId") /\ Truthy(decoded, "timestamp") /\ Truthy(decoded, "nonce")

\* `decoded.userId && decoded.timestamp && decoded.nonce !== undefined`
ValidPayload(decoded) ==
  Truthy(decoded, "userId") /\ Truthy(decoded, "timestamp")
    /\ "nonce" \in DOMAIN decoded

\* `verifyTokenString`: the user id in the first part of the token, in a
\* one-element tuple, or Null; the parts after the first are never read
verifyTokenString(token) ==
  LET payload == token[1]
      decoded == JSONParse(Base64Decode(payload))
  IN IF decoded = Null THEN Null
     ELSE IF ValidPayload(decoded[1]) THEN <<decoded[1].userId>>
     ELSE Null

\* input: [token]
verifyTokenStart(input) ==
  [op |-> "verifyToken", pc |-> "selectUser", input |-> input, error |-> NoError,
   user_id |-> 0]

verifyTokenStep(db, l) ==
  CASE l.pc = "selectUser" ->
         LET tokenData == verifyTokenString(l.input.token)
         IN IF tokenData = Null THEN Throw(db, l, "Invalid token")
            ELSE IF tokenData[1] \notin DOMAIN db.users.rows
            THEN Throw(db, l, "User not found")
            ELSE Return(db, [l EXCEPT !.user_id = tokenData[1]])

\* `verifyPassword`: the hash of the password given is the hash stored
verifyPassword(password, hash) == hashPassword(password) = hash

\* a lookup that finds no user
UsersByEmail_None(db, email) == {}

\* the rows `where email = input.email` selects
UsersByEmail(db, email) ==
  {u \in DOMAIN db.users.rows : db.users.rows[u].email = email}

\* an error for the unknown email that names what is wrong
UnknownEmailError_UserNotFound == "User not found"

\* what login throws when no user has the email
UnknownEmailError == "Invalid email or password"

\* what login throws when the password does not match
WrongPasswordError == "Invalid email or password"

\* input: [email, password, now, nonce]; now and nonce are what Date.now() and
\* Math.random() return to the handler
loginStart(input) ==
  [op |-> "login", pc |-> "selectUser", input |-> input, error |-> NoError,
   user_id |-> 0, token |-> Null]

loginStep(db, l) ==
  CASE l.pc = "selectUser" ->
         LET users == UsersByEmail(db, l.input.email)
         IN IF users = {} THEN Throw(db, l, UnknownEmailError)
            ELSE LET u == SetMin(users)
                 IN IF ~verifyPassword(l.input.password, db.users.rows[u].password_hash)
                    THEN Throw(db, l, WrongPasswordError)
                    ELSE Return(db, [l EXCEPT !.user_id = u,
                                              !.token = <<generateToken(u, l.input.now,
                                                                        l.input.nonce)>>])

\* input: [email, password, now, nonce]
registerStart(input) ==
  [op |-> "register", pc |-> "selectUsers", input |-> input, error |-> NoError,
   user_id |-> 0, token |-> Null]

registerStep(db, l) ==
  CASE l.pc = "selectUsers" ->
         IF UsersByEmail(db, l.input.email) # {}
         THEN Throw(db, l, "User with this email already exists")
         ELSE Goto(db, l, "insertUser")
    [] l.pc = "insertUser" ->
         \* users.email is unique
         IF \E u \in DOMAIN db.users.rows : db.users.rows[u].email = l.input.email
         THEN Throw(db, l, UniqueViolation)
         ELSE LET row == [email |-> l.input.email,
                          password_hash |-> hashPassword(l.input.password)]
                  id == NextId(db.users)
              IN Return([db EXCEPT !.users = Insert(@, row)],
                        [l EXCEPT !.user_id = id,
                                  !.token = <<generateToken(id, l.input.now,
                                                            l.input.nonce)>>])

\* input: [id, email]; email is Null when the field is left out
updateUserStart(input) ==
  [op |-> "updateUser", pc |-> "updateUser", input |-> input, error |-> NoError]

updateUserStep(db, l) ==
  CASE l.pc = "updateUser" ->
         IF l.input.id \notin DOMAIN db.users.rows
         THEN Throw(db, l, "User not found")
         ELSE IF l.input.email = Null THEN Return(db, l)
         ELSE IF \E u \in DOMAIN db.users.rows \ {l.input.id} :
                   db.users.rows[u].email = l.input.email[1]
         THEN Throw(db, l, UniqueViolation)
         ELSE Return([db EXCEPT !.users.rows[l.input.id].email = l.input.email[1]],
                     l)

\* the rows of other tables that reference user u
ReferencesToUser(db, u) ==
  {<<"customer_addresses", a>> : a \in {a \in DOMAIN db.addresses :
                                          db.addresses[a].user_id = u}}
  \cup {<<"cart_items", k>> : k \in {k \in DOMAIN db.cartItems.rows :
                                       db.cartItems.rows[k].user_id = u}}
  \cup {<<"orders", o>> : o \in {o \in DOMAIN db.orders : db.orders[o].user_id = u}}

\* input: [id]
deleteUserStart(input) ==
  [op |-> "deleteUser", pc |-> "deleteUser", input |-> input, error |-> NoError]

deleteUserStep(db, l) ==
  CASE l.pc = "deleteUser" ->
         IF l.input.id \notin DOMAIN db.users.rows
         THEN Throw(db, l, "User not found")
         ELSE IF ReferencesToUser(db, l.input.id) # {}
         THEN Throw(db, l, ForeignKeyViolation)
         ELSE Return([db EXCEPT !.users = Delete(@, {l.input.id})], l)

\* ------------------------------------------------------- shipping handlers
\* CITIES: the province of every city, by city_id
CITIES ==
  <<"DKI Jakarta", "DKI Jakarta", "DKI Jakarta", "DKI Jakarta", "DKI Jakarta",
    "Jawa Barat", "Jawa Barat", "Banten", "Jawa Barat", "Jawa Barat",
    "Jawa Timur", "Sumatera Utara", "Jawa Tengah", "Sulawesi Selatan",
    "Sumatera Selatan", "Kepulauan Riau", "Riau", "Lampung", "Sumatera Barat",
    "Jawa Timur", "Kalimantan Timur", "Kalimantan Timur", "Kalimantan Selatan",
    "Kalimantan Barat", "Bali", "Sulawesi Utara", "Maluku", "Papua",
    "Nusa Tenggara Timur", "Nusa Tenggara Barat">>

\* COURIERS: the codes
COURIERS == {"jne", "pos", "tiki", "anteraja", "jnt", "sicepat", "ninja", "lion"}

DISTANCE_ZONES ==
  [same_city |-> 1, same_province |-> 2, java_bali |-> 3, sumatra |-> 4,
   kalimantan |-> 5, sulawesi |-> 6, eastern_indonesia |-> 7]

javaBaliProvinces ==
  {"DKI Jakarta", "Jawa Barat", "Jawa Tengah", "Jawa Timur", "DI Yogyakarta",
   "Banten", "Bali"}

sumatraProvinces ==
  {"Sumatera Utara", "Sumatera Barat", "Sumatera Selatan", "Riau",
   "Kepulauan Riau", "Jambi", "Bengkulu", "Lampung", "Aceh", "Bangka Belitung"}

kalimantanProvinces ==
  {"Kalimantan Barat", "Kalimantan Tengah", "Kalimantan Selatan",
   "Kalimantan Timur", "Kalimantan Utara"}

sulawesiProvinces ==
  {"Sulawesi Utara", "Sulawesi Tengah", "Sulawesi Selatan", "Sulawesi Tenggara",
   "Sulawesi Barat", "Gorontalo"}

\* the zone of two cities of the list
ZoneOfCities(originCityId, destinationCityId) ==
  LET origin == CITIES[originCityId]
      dest == CITIES[destinationCityId]
  IN IF originCityId = destinationCityId THEN DISTANCE_ZONES.same_city
     ELSE IF origin = dest THEN DISTANCE_ZONES.same_province
     ELSE IF origin \in javaBaliProvinces /\ dest \in javaBaliProvinces
     THEN DISTANCE_ZONES.java_bali
     ELSE IF origin \in sumatraProvinces /\ dest \in sumatraProvinces
     THEN DISTANCE_ZONES.sumatra
     ELSE IF origin \in kalimantanProvinces /\ dest \in kalimantanProvinces
     THEN DISTANCE_ZONES.kalimantan
     ELSE IF origin \in sulawesiProvinces /\ dest \in sulawesiProvinces
     THEN DISTANCE_ZONES.sulawesi
     ELSE DISTANCE_ZONES.eastern_indonesia

\* a zone function that compares the two ids before it looks the cities up
getDistanceZone_SameIdFirst(originCityId, destinationCityId) ==
  IF originCityId = destinationCityId THEN DISTANCE_ZONES.same_city
  ELSE IF originCityId \notin DOMAIN CITIES \/ destinationCityId \notin DOMAIN CITIES
  THEN DISTANCE_ZONES.eastern_indonesia
  ELSE ZoneOfCities(originCityId, destinationCityId)

\* `getDistanceZone`: a city that is not in the list gives the last zone
getDistanceZone(originCityId, destinationCityId) ==
  IF originCityId \notin DOMAIN CITIES \/ destinationCityId \notin DOMAIN CITIES
  THEN DISTANCE_ZONES.eastern_indonesia
  ELSE ZoneOfCities(originCityId, destinationCityId)

\* a base cost that rounds the weight down to whole kilograms
BaseCost_RoundDown(weight) == (weight \div 1000) * 1000

\* `Math.ceil(weight / 1000) * 1000`, the weight in grams
BaseCost(weight) == CeilDiv(weight, 1000) * 1000

Max(a, b) == IF a >= b THEN a ELSE b

\* the services of a courier: name, rate, and the days of the etd text
\* ('a-b hari' is <<a, b>>, '1 hari' is <<1>>)
CourierServices(courier, zone) ==
  CASE courier = "jne" ->
         <<[service |-> "REG", rate |-> 9, etd |-> <<zone + 1, zone + 3>>],
           [service |-> "YES", rate |-> 15, etd |-> <<Max(1, zone - 1), zone + 1>>],
           [service |-> "OKE", rate |-> 7, etd |-> <<zone + 2, zone + 5>>]>>
    [] courier = "pos" ->
         <<[service |-> "Pos Reguler", rate |-> 7, etd |-> <<zone + 2, zone + 4>>],
           [service |-> "Pos Express", rate |-> 12, etd |-> <<zone, zone + 2>>]>>
    [] courier = "tiki" ->
         <<[service |-> "REG", rate |-> 8, etd |-> <<zone + 1, zone + 3>>],
           [service |-> "ONS", rate |-> 14, etd |-> <<Max(1, zone - 1), zone + 1>>]>>
    [] courier = "jnt" ->
         <<[service |-> "EZ", rate |-> 6, etd |-> <<zone + 2, zone + 4>>],
           [service |-> "REG", rate |-> 8, etd |-> <<zone + 1, zone + 3>>]>>
    [] courier = "sicepat" ->
         <<[service |-> "REG", rate |-> 8, etd |-> <<zone + 1, zone + 3>>],
           [service |-> "BEST", rate |-> 12, etd |-> <<zone, zone + 2>>]>>
    [] courier = "anteraja" ->
         <<[service |-> "REG", rate |-> 7, etd |-> <<zone + 1, zone + 4>>],
           [service |-> "NEXT DAY", rate |-> 18, etd |-> <<1>>]>>
    [] courier = "ninja" ->
         <<[service |-> "REG", rate |-> 9, etd |-> <<zone + 1, zone + 3>>]>>
    [] courier = "lion" ->
         <<[service |-> "REG", rate |-> 10, etd |-> <<zone + 1, zone + 4>>],
           [service |-> "CARGO", rate |-> 6, etd |-> <<zone + 3, zone + 7>>]>>
    [] OTHER ->
         <<[service |-> "REG", rate |-> 10, etd |-> <<zone + 1, zone + 4>>]>>

\* `calculateCourierCost`: cost = baseCost * zone * rate for every service
calculateCourierCost(courier, weight, zone) ==
  LET services == CourierServices(courier, zone)
  IN [i \in DOMAIN services |->
        [service |-> services[i].service,
         cost |-> BaseCost(weight) * zone * services[i].rate,
         etd |-> services[i].etd]]

\* input: [origin_city_id, destination_city_id, weight, courier]
calculateShippingCostStart(input) ==
  [op |-> "calculateShippingCost", pc |-> "calculate", input |-> input,
   error |-> NoError, costs |-> <<>>]

calculateShippingCostStep(db, l) ==
  CASE l.pc = "calculate" ->
         IF l.input.weight <= 0 THEN Throw(db, l, "Weight must be positive")
         ELSE IF l.input.courier \notin COURIERS
         THEN Throw(db, l, "Unsupported courier")
         ELSE LET zone == getDistanceZone(l.input.origin_city_id,
                                          l.input.destination_city_id)
              IN Return(db, [l EXCEPT !.costs =
                               calculateCourierCost(l.input.courier,
                                                    l.input.weight, zone)])

\* ------------------------------------------------------ running a handler
Step(db, l) ==
  CASE l.op = "createOrder" -> createOrderStep(db, l)
    [] l.op = "cancelOrder" -> cancelOrderStep(db, l)
    [] l.op = "updateOrderStatus" -> updateOrderStatusStep(db, l)
    [] l.op = "processPayment" -> processPaymentStep(db, l)
    [] l.op = "handlePaymentNotification" -> handlePaymentNotificationStep(db, l)
    [] l.op = "createAddress" -> createAddressStep(db, l)
    [] l.op = "updateAddress" -> updateAddressStep(db, l)
    [] l.op = "setDefaultAddress" -> setDefaultAddressStep(db, l)
    [] l.op = "refundPayment" -> refundPaymentStep(db, l)
    [] l.op = "addToCart" -> addToCartStep(db, l)
    [] l.op = "updateCartItem" -> updateCartItemStep(db, l)
    [] l.op = "removeCartItem" -> removeCartItemStep(db, l)
    [] l.op = "clearCart" -> clearCartStep(db, l)
    [] l.op = "createCategory" -> createCategoryStep(db, l)
    [] l.op = "deleteCategory" -> deleteCategoryStep(db, l)
    [] l.op = "createProduct" -> createProductStep(db, l)
    [] l.op = "updateProduct" -> updateProductStep(db, l)
    [] l.op = "login" -> loginStep(db, l)
    [] l.op = "register" -> registerStep(db, l)
    [] l.op = "updateUser" -> updateUserStep(db, l)
    [] l.op = "deleteUser" -> deleteUserStep(db, l)
    [] l.op = "verifyToken" -> verifyTokenStep(db, l)
    [] l.op = "updateProductStock" -> updateProductStockStep(db, l)
    [] l.op = "calculateShippingCost" -> calculateShippingCostStep(db, l)

RECURSIVE Run(_, _)
\* a request served with no other request in flight: its statements in order
Run(db, l) ==
  IF l.pc = "done" THEN [db |-> db, l |-> l]
  ELSE LET r == Step(db, l) IN Run(r.db, r.l)

Idle == [op |-> "idle"]

\* the token a finished register or login hands to its caller, with the user
\* it was issued for
TokensReturned(l) ==
  IF l.op \in {"register", "login"} /\ l.error = NoError
  THEN {[token |-> l.token[1], user_id |-> l.user_id]}
  ELSE {}

\* serve one request alone, keeping its input, its outcome and the tables it
\* started from
Serve(l0) ==
  LET r == Run(DB, l0)
  IN /\ SetDB(r.db)
     /\ last' = [op |-> l0.op, input |-> l0.input, error |-> r.l.error,
                 out |-> r.l, pre |-> DB]
     /\ issuedTokens' = issuedTokens \cup TokensReturned(r.l)
     /\ UNCHANGED procs

\* --------------------------------------------------------------- inputs
RECURSIVE SeqsUpTo(_, _)
\* all sequences over S of length at most n
SeqsUpTo(S, n) ==
  IF n = 0 THEN {<<>>}
  ELSE LET shorter == SeqsUpTo(S, n - 1)
       IN shorter \cup {Append(s, x) : s \in shorter, x \in S}

\* a field of an update request: left out, or one of the values vs
Optional(vs) == {Null} \cup {<<v>> : v \in vs}

ItemInputs == [product_id : ProductIds, quantity : 1..MaxQty]

CreateOrderInputs ==
  [user_id : Users, shipping_address_id : 1..3, items : SeqsUpTo(ItemInputs, MaxItems)]

\* ids a request can name for an order: every id the table can hold and one
\* more, which never has a row
OrderIds == 1..(MaxOrders + 1)

CancelOrderInputs == [orderId : OrderIds, userId : Users]

UpdateOrderStatusInputs == [id : OrderIds, status : OrderStatuses]

ProcessPaymentInputs == [order_id : OrderIds, now : Times]

NotificationInputs ==
  [transaction_id : {Null} \cup {<<TransactionId(t, o)>> : t \in Times, o \in OrderIds},
   transaction_status : TransactionStatuses, now : Times]

\* ids a request can name for a payment, one of them never in the table
PaymentIds == 1..(MaxOrders + 1)

\* the amounts a refund request names: none, a negative one, 0, 1, and the
\* amount of each payment, one less and one more
RefundAmounts(payments) ==
  {-1, 0, 1} \cup {payments[k].amount + d : k \in DOMAIN payments, d \in {-1, 0, 1}}

RefundPaymentInputs(payments) ==
  [paymentId : PaymentIds, amount : Optional(RefundAmounts(payments))]

\* ids a request can name for an address, one of them never in the table
AddressIds == 1..(MaxAddresses + 1)

\* user 3 has no row
CreateAddressInputs == [user_id : Users \cup {3}, is_default : BOOLEAN]

UpdateAddressInputs == [id : AddressIds, is_default : {Null, <<TRUE>>, <<FALSE>>}]

SetDefaultAddressInputs == [addressId : AddressIds, userId : Users]

\* ids a request can name for a cart item, one of them never in the table
CartItemIds == 1..(MaxCartItems + 1)

\* user 3 has no row
AddToCartInputs ==
  [user_id : Users \cup {3}, product_id : ProductIds, quantity : 1..MaxQty]

UpdateCartItemInputs == [id : CartItemIds, quantity : 1..MaxQty]

RemoveCartItemInputs == [cartItemId : CartItemIds, userId : Users]

ClearCartInputs == [userId : Users \cup {3}]

\* ids a request can name for a category, one of them never in the table
CategoryIds == 1..(MaxCategories + 1)

CreateCategoryInputs == [name : {"Books"}]

DeleteCategoryInputs == [id : CategoryIds]

CreateProductInputs ==
  [category_id : CategoryIds, price : Prices, stock_quantity : {MaxStock},
   weight : {500}, is_active : BOOLEAN]

UpdateProductInputs ==
  [id : ProductIds, price : Optional(Prices), stock_quantity : Optional({MaxStock}),
   category_id : Optional(CategoryIds), weight : {Null},
   is_active : Optional(BOOLEAN)]

\* the update requests that set a product's price and nothing else
PriceUpdates ==
  {input \in UpdateProductInputs :
     /\ input.price # Null
     /\ input.stock_quantity = Null /\ input.category_id = Null
     /\ input.is_active = Null}

Emails == {"a@shop", "b@shop", "c@shop"}
Passwords == {"secret-a", "secret-b"}
\* values Math.random() returns: 0, and a number above 0
Nonces == {0, 1}

\* ids a request can name for a user, one of them never in the table
UserIds == 1..(MaxUsers + 1)

CredentialInputs ==
  [email : Emails, password : Passwords, now : Times, nonce : Nonces]

UpdateUserInputs == [id : UserIds, email : Optional(Emails)]

DeleteUserInputs == [id : UserIds]

\* the objects a caller can put into the first part of a token: any user id,
\* timestamp and nonce, 0 included, and objects with no nonce
Payloads ==
  [userId : UserIds \cup {0}, timestamp : Times \cup {0}, nonce : Nonces]
    \cup [userId : UserIds, timestamp : Times]

\* the second parts a caller can send: the one generateToken writes and another
SecondParts ==
  {Base64Encode(<<"text", "JWT_SECRET">>), Base64Encode(<<"text", "forged">>)}

\* the tokens a caller can send: a payload with or without a second part, and
\* a string that is not base64 of JSON
VerifyTokenInputs ==
  [token : {<<Base64Encode(JSONStringify(o))>> : o \in Payloads}
             \cup {<<Base64Encode(JSONStringify(o)), s>> :
                     o \in Payloads, s \in SecondParts}
             \cup {<<Base64Encode(<<"text", "invalid-token-format">>)>>}]

\* city ids a request can name: two cities of one province, a second Java
\* province, two cities each of Sumatra, Kalimantan and Sulawesi, one of Papua,
\* and an id that is not in the list
ShippingCityIds == {1, 2, 6, 12, 15, 21, 23, 14, 26, 28, Len(CITIES) + 1}

\* weights in grams, from none to MaxKilos kilograms, at and around whole
\* kilograms
ShippingWeights ==
  {-500, 0, 1}
    \cup UNION {{k * 1000 - 500, k * 1000, k * 1000 + 1} : k \in 1..(MaxKilos - 1)}
    \cup {MaxKilos * 1000}

\* courier codes a request can name, one of them not a courier
CourierCodes == COURIERS \cup {"dhl"}

CalculateShippingInputs ==
  [origin_city_id : ShippingCityIds, destination_city_id : ShippingCityIds,
   weight : ShippingWeights, courier : CourierCodes]

\* the addresses the order handlers run against: address 1 of user 1 and
\* address 2 of user 2, both created as default addresses
SeedAddresses ==
  <<[user_id |-> 1, is_default |-> TRUE], [user_id |-> 2, is_default |-> TRUE]>>

SetTables(db) ==
  /\ usersTable = db.users
  /\ categoriesTable = db.categories
  /\ cartItemsTable = db.cartItems
  /\ productsTable = db.products
  /\ customerAddressesTable = db.addresses
  /\ ordersTable = db.orders
  /\ orderItemsTable = db.orderItems
  /\ paymentsTable = db.payments

\* ----------------------------------------------------------- initial states
\* a shop with its products and two customers' addresses and no order yet;
\* product 2 may have been deactivated
Init ==
  /\ \E active \in [Products -> BOOLEAN] :
        /\ active[1]
        /\ SetTables([EmptyDB(active) EXCEPT !.addresses = SeedAddresses])
  /\ last = Idle
  /\ procs = <<>>
  /\ issuedTokens = {}

Item(p, q) == [product_id |-> p, quantity |-> q]

\* orders placed before the fulfilment and payment runs start
SeedOrders ==
  {[user_id |-> 1, shipping_address_id |-> 1, items |-> <<Item(1, 1), Item(1, 2)>>],
   [user_id |-> 1, shipping_address_id |-> 1, items |-> <<Item(2, 1)>>],
   [user_id |-> 2, shipping_address_id |-> 2, items |-> <<Item(1, 1), Item(2, 2)>>]}

\* the shop after createOrder has served two of the seed orders
InitSeeded ==
  /\ \E s1 \in SeedOrders, s2 \in SeedOrders :
       LET base == [EmptyDB([p \in Products |-> TRUE]) EXCEPT
                      !.addresses = SeedAddresses]
           d1 == Run(base, createOrderStart(s1)).db
           d2 == Run(d1, createOrderStart(s2)).db
       IN SetTables(d2)
  /\ last = Idle
  /\ procs = <<>>
  /\ issuedTokens = {}

\* the shop after createOrder has served one of the seed orders
InitPrice ==
  /\ \E s1 \in SeedOrders :
       LET base == [EmptyDB([p \in Products |-> TRUE]) EXCEPT
                      !.addresses = SeedAddresses]
       IN SetTables(Run(base, createOrderStart(s1)).db)
  /\ last = Idle
  /\ procs = <<>>
  /\ issuedTokens = {}

\* the shop before anyone has registered
InitAuth ==
  /\ SetTables([EmptyDB([p \in Products |-> TRUE]) EXCEPT !.users = EmptyTable])
  /\ last = Idle
  /\ procs = <<>>
  /\ issuedTokens = {}

\* the shop before any address is entered
InitAddr ==
  /\ SetTables(EmptyDB([p \in Products |-> TRUE]))
  /\ last = Idle
  /\ procs = <<>>
  /\ issuedTokens = {}

\* ------------------------------------------ requests served one at a time
\* (the order table holds at most MaxOrders rows)
CreateOrder ==
  /\ last = Idle
  /\ Len(ordersTable) < MaxOrders
  /\ \E input \in CreateOrderInputs : Serve(createOrderStart(input))

\* (cancellations stop once a stock has grown past MaxStock, which bounds the
\* stock when an order is set back to pending and cancelled again)
CancelOrder ==
  /\ last = Idle
  /\ \A p \in Products : productsTable[p].stock_quantity <= MaxStock
  /\ \E input \in CancelOrderInputs : Serve(cancelOrderStart(input))

UpdateOrderStatus ==
  /\ last = Idle
  /\ \E input \in UpdateOrderStatusInputs : Serve(updateOrderStatusStart(input))

ProcessPayment ==
  /\ last = Idle
  /\ \E input \in ProcessPaymentInputs : Serve(processPaymentStart(input))

HandlePaymentNotification ==
  /\ last = Idle
  /\ \E input \in NotificationInputs : Serve(handlePaymentNotificationStart(input))

CreateAddress ==
  /\ last = Idle
  /\ Len(customerAddressesTable) < MaxAddresses
  /\ \E input \in CreateAddressInputs : Serve(createAddressStart(input))

UpdateAddress ==
  /\ last = Idle
  /\ \E input \in UpdateAddressInputs : Serve(updateAddressStart(input))

SetDefaultAddress ==
  /\ last = Idle
  /\ \E input \in SetDefaultAddressInputs : Serve(setDefaultAddressStart(input))

RefundPayment ==
  /\ last = Idle
  /\ \E input \in RefundPaymentInputs(paymentsTable) :
       Serve(refundPaymentStart(input))

\* (the serial of the cart table stops at MaxCartItems, and a quantity above
\* MaxQty is not added to again)
AddToCart ==
  /\ last = Idle
  /\ cartItemsTable.serial < MaxCartItems
  /\ \A k \in DOMAIN cartItemsTable.rows : cartItemsTable.rows[k].quantity <= MaxQty
  /\ \E input \in AddToCartInputs : Serve(addToCartStart(input))

UpdateCartItem ==
  /\ last = Idle
  /\ \E input \in UpdateCartItemInputs : Serve(updateCartItemStart(input))

RemoveCartItem ==
  /\ last = Idle
  /\ \E input \in RemoveCartItemInputs : Serve(removeCartItemStart(input))

ClearCart ==
  /\ last = Idle
  /\ \E input \in ClearCartInputs : Serve(clearCartStart(input))

\* (the category table's serial stops at MaxCategories)
CreateCategory ==
  /\ last = Idle
  /\ categoriesTable.serial < MaxCategories
  /\ \E input \in CreateCategoryInputs : Serve(createCategoryStart(input))

DeleteCategory ==
  /\ last = Idle
  /\ \E input \in DeleteCategoryInputs : Serve(deleteCategoryStart(input))

\* (the product table holds at most MaxProducts rows)
CreateProduct ==
  /\ last = Idle
  /\ Len(productsTable) < MaxProducts
  /\ \E input \in CreateProductInputs : Serve(createProductStart(input))

UpdateProduct ==
  /\ last = Idle
  /\ \E input \in UpdateProductInputs : Serve(updateProductStart(input))

\* updateProduct called to change a price
UpdateProductPrice ==
  /\ last = Idle
  /\ \E input \in PriceUpdates : Serve(updateProductStart(input))

\* (the user table's serial stops at MaxUsers)
Register ==
  /\ last = Idle
  /\ usersTable.serial < MaxUsers
  /\ Cardinality(issuedTokens) < MaxTokens
  /\ \E input \in CredentialInputs : Serve(registerStart(input))

Login ==
  /\ last = Idle
  /\ Cardinality(issuedTokens) < MaxTokens
  /\ \E input \in CredentialInputs : Serve(loginStart(input))

UpdateUser ==
  /\ last = Idle
  /\ \E input \in UpdateUserInputs : Serve(updateUserStart(input))

DeleteUser ==
  /\ last = Idle
  /\ \E input \in DeleteUserInputs : Serve(deleteUserStart(input))

\* the response has been delivered
CalculateShippingCost ==
  /\ last = Idle
  /\ \E input \in CalculateShippingInputs : Serve(calculateShippingCostStart(input))

\* a createOrder served alone and, right after it, cancelOrder of the order it
\* returned, for the same user
CreateOrderThenCancel ==
  /\ last = Idle
  /\ Len(ordersTable) < MaxOrders
  /\ \E input \in CreateOrderInputs :
       LET created == Run(DB, createOrderStart(input))
           cancelled == Run(created.db,
                            cancelOrderStart([orderId |-> created.l.order_id,
                                              userId |-> input.user_id]))
       IN /\ created.l.error = NoError
          /\ SetDB(cancelled.db)
          /\ last' = [op |-> "createOrderThenCancel", input |-> input,
                      error |-> cancelled.l.error, out |-> cancelled.l,
                      pre |-> DB]
          /\ UNCHANGED <<procs, issuedTokens>>

VerifyToken ==
  /\ last = Idle
  /\ \E input \in VerifyTokenInputs : Serve(verifyTokenStart(input))

Respond ==
  /\ last # Idle
  /\ last' = Idle
  /\ UNCHANGED <<tables, procs, issuedTokens>>

\* order creation and cancellation, from the empty order table
Next ==
  \/ CreateOrder
  \/ CancelOrder
  \/ Respond

Spec == Init /\ [][Next]_vars

\* cancellation and status changes of existing orders
NextFulfil ==
  \/ CancelOrder
  \/ UpdateOrderStatus
  \/ Respond

SpecFulfil == InitSeeded /\ [][NextFulfil]_vars

\* payments of existing orders
NextPay ==
  \/ UpdateOrderStatus
  \/ ProcessPayment
  \/ HandlePaymentNotification
  \/ Respond

SpecPay == InitSeeded /\ [][NextPay]_vars

\* ------------------------------------------------- concurrent requests
Procs == {1, 2}

IdleProc == [op |-> "idle", pc |-> "idle"]

InFlight(p) == procs[p].pc \notin {"idle", "done"}

\* createOrder requests that have not inserted their order yet
OrdersToCome ==
  {p \in Procs : /\ InFlight(p)
                 /\ procs[p].op = "createOrder"
                 /\ procs[p].order_id = 0}

ConcCreateOrderInputs ==
  {input \in CreateOrderInputs : Len(input.items) <= ConcMaxItems}

InitConc ==
  /\ \E active \in [Products -> BOOLEAN] :
        /\ active[1]
        /\ SetTables([EmptyDB(active) EXCEPT !.addresses = SeedAddresses])
  /\ last = Idle
  /\ procs = [p \in Procs |-> IdleProc]
  /\ issuedTokens = {}

\* a createOrder request arrives while other requests may be in flight
ConcCreateOrder(p) ==
  /\ procs[p].pc = "idle"
  /\ Len(ordersTable) + Cardinality(OrdersToCome) < MaxOrders
  /\ \E input \in ConcCreateOrderInputs :
       procs' = [procs EXCEPT ![p] = createOrderStart(input)]
  /\ UNCHANGED <<tables, last, issuedTokens>>

\* the next database statement of request p, and the code up to the next await
ConcStep(p) ==
  /\ InFlight(p)
  /\ LET r == Step(DB, procs[p])
     IN /\ SetDB(r.db)
        /\ procs' = [procs EXCEPT ![p] = r.l]
  /\ UNCHANGED <<last, issuedTokens>>

ConcRespond(p) ==
  /\ procs[p].pc = "done"
  /\ procs' = [procs EXCEPT ![p] = IdleProc]
  /\ UNCHANGED <<tables, last, issuedTokens>>

NextConc ==
  \E p \in Procs :
    \/ ConcCreateOrder(p)
    \/ ConcStep(p)
    \/ ConcRespond(p)

SpecConc == InitConc /\ [][NextConc]_vars

\* the product the racing requests name
RacedProducts == {1}

\* the requests that race on the stock of a product: orders of one item by
\* user 1 to their own address, cancellations by user 1, and stock updates
StockOrderInputs ==
  {input \in ConcCreateOrderInputs :
     /\ input.user_id = 1 /\ input.shipping_address_id = 1
     /\ Len(input.items) = 1
     /\ input.items[1].product_id \in RacedProducts}

StockCancelInputs == {input \in CancelOrderInputs : input.userId = 1}

\* stock values a request can name, one of them negative
StockValues == {-1, 0, 1}

UpdateProductStockInputs == [productId : RacedProducts, quantity : StockValues]

\* updateProduct requests that set the stock and nothing else
StockUpdates ==
  [id : RacedProducts, price : {Null}, stock_quantity : {<<v>> : v \in StockValues},
   category_id : {Null}, weight : {Null}, is_active : {Null}]

\* a request arrives while other requests may be in flight
StockCreateOrder(p) ==
  /\ procs[p].pc = "idle"
  /\ Len(ordersTable) + Cardinality(OrdersToCome) < MaxOrders
  /\ \E input \in StockOrderInputs :
       procs' = [procs EXCEPT ![p] = createOrderStart(input)]
  /\ UNCHANGED <<tables, last, issuedTokens>>

StockCancelOrder(p) ==
  /\ procs[p].pc = "idle"
  /\ \E input \in StockCancelInputs :
       procs' = [procs EXCEPT ![p] = cancelOrderStart(input)]
  /\ UNCHANGED <<tables, last, issuedTokens>>

\* the products.update route: the schema, then the handler
StockUpdateProduct(p) ==
  /\ procs[p].pc = "idle"
  /\ \E input \in StockUpdates :
       procs' = [procs EXCEPT ![p] =
                   IF updateProductInputSchema(input)
                   THEN updateProductStart(input)
                   ELSE [updateProductStart(input) EXCEPT !.pc = "done",
                                                          !.error = "BAD_REQUEST"]]
  /\ UNCHANGED <<tables, last, issuedTokens>>

StockUpdateProductStock(p) ==
  /\ procs[p].pc = "idle"
  /\ \E input \in UpdateProductStockInputs :
       procs' = [procs EXCEPT ![p] = updateProductStockStart(input)]
  /\ UNCHANGED <<tables, last, issuedTokens>>

InitStock ==
  /\ SetTables([EmptyDB([p \in Products |-> TRUE]) EXCEPT
                  !.addresses = SeedAddresses])
  /\ last = Idle
  /\ procs = [p \in Procs |-> IdleProc]
  /\ issuedTokens = {}

NextStock ==
  \E p \in Procs :
    \/ StockCreateOrder(p)
    \/ StockCancelOrder(p)
    \/ StockUpdateProduct(p)
    \/ StockUpdateProductStock(p)
    \/ ConcStep(p)
    \/ ConcRespond(p)

SpecStock == InitStock /\ [][NextStock]_vars

\* the shop after createOrder has served an order of user 1 for both products
\* and an order of user 2 for product 1
RaceOrders ==
  <<[user_id |-> 1, shipping_address_id |-> 1, items |-> <<Item(1, 1), Item(2, 2)>>],
    [user_id |-> 2, shipping_address_id |-> 2, items |-> <<Item(1, 2)>>]>>

RaceDB ==
  LET base == [EmptyDB([p \in Products |-> TRUE]) EXCEPT !.addresses = SeedAddresses]
      d1 == Run(base, createOrderStart(RaceOrders[1])).db
  IN Run(d1, createOrderStart(RaceOrders[2])).db

InitCancelRace ==
  /\ SetTables(RaceDB)
  /\ last = Idle
  /\ procs = [p \in Procs |-> IdleProc]
  /\ issuedTokens = {}

\* a cancelOrder request arrives while other requests may be in flight
ConcCancelOrder(p) ==
  /\ procs[p].pc = "idle"
  /\ \E input \in CancelOrderInputs :
       procs' = [procs EXCEPT ![p] = cancelOrderStart(input)]
  /\ UNCHANGED <<tables, last, issuedTokens>>

NextCancelRace ==
  \E p \in Procs :
    \/ ConcCancelOrder(p)
    \/ ConcStep(p)
    \/ ConcRespond(p)

SpecCancelRace == InitCancelRace /\ [][NextCancelRace]_vars

\* a processPayment request arrives while other requests may be in flight
ConcProcessPayment(p) ==
  /\ procs[p].pc = "idle"
  /\ Len(paymentsTable) < MaxPayments
  /\ \E input \in ProcessPaymentInputs :
       procs' = [procs EXCEPT ![p] = processPaymentStart(input)]
  /\ UNCHANGED <<tables, last, issuedTokens>>

NextPayRace ==
  \E p \in Procs :
    \/ ConcProcessPayment(p)
    \/ ConcStep(p)
    \/ ConcRespond(p)

SpecPayRace == InitCancelRace /\ [][NextPayRace]_vars

\* the customers' address books
NextAddr ==
  \/ CreateAddress
  \/ UpdateAddress
  \/ SetDefaultAddress
  \/ Respond

SpecAddr == InitAddr /\ [][NextAddr]_vars

\* the customers' carts
NextCart ==
  \/ AddToCart
  \/ UpdateCartItem
  \/ RemoveCartItem
  \/ ClearCart
  \/ Respond

SpecCart == Init /\ [][NextCart]_vars

\* the catalogue: categories and their products
NextCatalog ==
  \/ CreateCategory
  \/ DeleteCategory
  \/ CreateProduct
  \/ UpdateProduct
  \/ Respond

SpecCatalog == InitAddr /\ [][NextCatalog]_vars

\* orders placed while the products are repriced
NextPrice ==
  \/ CreateOrder
  \/ UpdateProductPrice
  \/ Respond

SpecPrice == InitPrice /\ [][NextPrice]_vars

\* payments and their refunds
NextRefund ==
  \/ ProcessPayment
  \/ HandlePaymentNotification
  \/ RefundPayment
  \/ Respond

SpecRefund == InitSeeded /\ [][NextRefund]_vars

\* accounts
NextAuth ==
  \/ Register
  \/ Login
  \/ UpdateUser
  \/ DeleteUser
  \/ Respond

SpecAuth == InitAuth /\ [][NextAuth]_vars

\* register, login, deleteUser and verifyToken
NextToken ==
  \/ Register
  \/ Login
  \/ DeleteUser
  \/ VerifyToken
  \/ Respond

SpecToken == InitAuth /\ [][NextToken]_vars

\* the shipping cost calculator
NextShipping ==
  \/ CalculateShippingCost
  \/ Respond

SpecShipping == InitAddr /\ [][NextShipping]_vars

\* orders placed, and orders placed and cancelled at once
NextRoundTrip ==
  \/ CreateOrder
  \/ CreateOrderThenCancel
  \/ Respond

SpecRoundTrip == Init /\ [][NextRoundTrip]_vars

\* cancellations and payments of the seed orders
NextCancelPay ==
  \/ CancelOrder
  \/ ProcessPayment
  \/ HandlePaymentNotification
  \/ Respond

SpecCancelPay == InitSeeded /\ [][NextCancelPay]_vars

\* ===================================================================== claims
RECURSIVE OrderedQty(_, _, _)
\* the sum of the quantities of the rows of `items` of order o and product p
OrderedQty(items, o, p) ==
  IF items = <<>> THEN 0
  ELSE (IF Head(items).order_id = o /\ Head(items).product_id = p
        THEN Head(items).quantity ELSE 0) + OrderedQty(Tail(items), o, p)

Stock(db, p) == db.products[p].stock_quantity

Served(op) == last # Idle /\ last.op = op
Succeeded(op) == Served(op) /\ last.error = NoError
Failed(op) == Served(op) /\ last.error # NoError

\* C1: after a successful createOrder the stock of every product is its stock
\* before the call minus the sum of the quantities of the order's items of
\* that product (products the order does not name keep their stock).
C1_StockDecreasedByOrderedQuantity ==
  Succeeded("createOrder") =>
    \A p \in Products :
      Stock(DB, p) = Stock(last.pre, p) - OrderedQty(orderItemsTable, last.out.order_id, p)

\* C2: cancelOrder on a pending order of the given user succeeds, sets that
\* order to 'cancelled', gives every product the summed quantity of the
\* order's items back, and changes no other order and nothing else.
C2_CancelRestoresStock ==
  (/\ Served("cancelOrder")
   /\ last.input.orderId \in DOMAIN last.pre.orders
   /\ last.pre.orders[last.input.orderId].user_id = last.input.userId
   /\ last.pre.orders[last.input.orderId].status = "pending")
  => LET o == last.input.orderId
     IN /\ last.error = NoError
        /\ DOMAIN ordersTable = DOMAIN last.pre.orders
        /\ ordersTable[o] = [last.pre.orders[o] EXCEPT !.status = "cancelled"]
        /\ \A o2 \in DOMAIN ordersTable \ {o} : ordersTable[o2] = last.pre.orders[o2]
        /\ \A p \in Products :
             /\ Stock(DB, p) = Stock(last.pre, p) + OrderedQty(last.pre.orderItems, o, p)
             /\ productsTable[p].is_active = last.pre.products[p].is_active
        /\ orderItemsTable = last.pre.orderItems
        /\ paymentsTable = last.pre.payments
        /\ customerAddressesTable = last.pre.addresses

\* a cancellation that restored two rows of one product while another order
\* exists
C2_Witness ==
  /\ Succeeded("cancelOrder")
  /\ Len(ordersTable) = 2
  /\ \E i, j \in DOMAIN orderItemsTable :
       /\ i # j
       /\ orderItemsTable[i].order_id = last.input.orderId
       /\ orderItemsTable[j].order_id = last.input.orderId
       /\ orderItemsTable[i].product_id = orderItemsTable[j].product_id

\* C3: cancelOrder fails and changes no table when the order does not exist,
\* is not the given user's, or is not 'pending' (an already cancelled order
\* included).
C3_CancelRejectedWithoutEffect ==
  (/\ Served("cancelOrder")
   /\ \/ last.input.orderId \notin DOMAIN last.pre.orders
      \/ last.pre.orders[last.input.orderId].user_id # last.input.userId
      \/ last.pre.orders[last.input.orderId].status # "pending")
  => /\ last.error # NoError
     /\ DB = last.pre

\* a second cancelOrder by the owner on an order cancelOrder has cancelled
C3_Witness ==
  /\ Failed("cancelOrder")
  /\ last.input.orderId \in DOMAIN ordersTable
  /\ ordersTable[last.input.orderId].user_id = last.input.userId
  /\ ordersTable[last.input.orderId].status = "cancelled"
  /\ \E p \in Products : Stock(DB, p) > 0

\* what makes a createOrder request invalid against the tables db
InvalidOrderRequest(db, input) ==
  \/ input.shipping_address_id \notin DOMAIN db.addresses
  \/ db.addresses[input.shipping_address_id].user_id # input.user_id
  \/ \E i \in DOMAIN input.items :
       \/ input.items[i].product_id \notin Products
       \/ ~db.products[input.items[i].product_id].is_active
       \/ input.items[i].quantity > Stock(db, input.items[i].product_id)

\* C4: createOrder fails, and no order, order item or stock is written, when
\* the address is missing or another user's, or some item names a missing or
\* inactive product or asks for more than the product's stock.
C4_InvalidOrderRejectedWithoutEffect ==
  (Served("createOrder") /\ InvalidOrderRequest(last.pre, last.input))
  => /\ last.error # NoError
     /\ DB = last.pre

\* a rejected request whose first item is valid and whose second item asks
\* for more than the stock
C4_Witness ==
  /\ Failed("createOrder")
  /\ Len(last.input.items) = 2
  /\ ~InvalidOrderRequest(last.pre, [last.input EXCEPT !.items = <<last.input.items[1]>>])
  /\ last.input.items[2].product_id \in Products
  /\ last.input.items[2].quantity > Stock(last.pre, last.input.items[2].product_id)
  /\ last.pre.products[last.input.items[2].product_id].is_active

Lifecycle ==
  {<<"pending", "paid">>, <<"paid", "processing">>, <<"processing", "shipped">>,
   <<"shipped", "delivered">>, <<"pending", "cancelled">>}

\* C5: every change of an order's status is one step of the lifecycle
\* pending -> paid -> processing -> shipped -> delivered or pending -> cancelled.
C5_StatusFollowsLifecycle ==
  last # Idle =>
    \A o \in DOMAIN last.pre.orders :
      ordersTable[o].status # last.pre.orders[o].status
        => <<last.pre.orders[o].status, ordersTable[o].status>> \in Lifecycle

PaymentsOf(payments, o) == {k \in DOMAIN payments : payments[k].order_id = o}

\* C7: processPayment for an order that has a payment fails with 'Payment
\* already exists for order' and inserts nothing, and no order ever has more
\* than one payment.
C7_OnePaymentPerOrder ==
  /\ (Served("processPayment") /\ PaymentsOf(last.pre.payments, last.input.order_id) # {})
       => /\ last.error = "Payment already exists for order"
          /\ DB = last.pre
  /\ \A o \in DOMAIN ordersTable : Cardinality(PaymentsOf(paymentsTable, o)) <= 1

\* a second processPayment for an order, rejected
C7_Witness ==
  /\ Failed("processPayment")
  /\ last.error = "Payment already exists for order"
  /\ Cardinality(PaymentsOf(paymentsTable, last.input.order_id)) = 1

\* the payment status the gateway's transaction_status stands for
ExpectedPaymentStatus(transaction_status) ==
  IF transaction_status \in {"capture", "settlement"} THEN "paid"
  ELSE IF transaction_status \in {"cancel", "expire"} THEN "cancelled"
  ELSE IF transaction_status \in {"deny", "failure"} THEN "failed"
  ELSE "pending"

\* the payments a notification's transaction_id identifies
NotifiedPayments(payments, transaction_id) ==
  {k \in DOMAIN payments : <<payments[k].midtrans_transaction_id>> = transaction_id}

\* C8: a served notification leaves the payment of its transaction_id with the
\* status its transaction_status maps to (capture/settlement paid, pending
\* pending, cancel/expire cancelled, deny/failure failed, anything else
\* pending), and with paid_at a timestamp exactly when that status is paid.
C8_NotificationSetsPaymentStatus ==
  Succeeded("handlePaymentNotification") =>
    \A k \in NotifiedPayments(last.pre.payments, last.input.transaction_id) :
      LET expected == ExpectedPaymentStatus(last.input.transaction_status)
      IN /\ paymentsTable[k].payment_status = expected
         /\ paymentsTable[k].paid_at = (IF expected = "paid" THEN <<last.input.now>> ELSE Null)

\* an 'expire' notification for a payment that was paid: the payment is
\* cancelled and its paid_at is null again
C8_Witness ==
  /\ Succeeded("handlePaymentNotification")
  /\ last.input.transaction_status = "expire"
  /\ \E k \in NotifiedPayments(last.pre.payments, last.input.transaction_id) :
       /\ last.pre.payments[k].payment_status = "paid"
       /\ last.pre.payments[k].paid_at # Null
       /\ paymentsTable[k].payment_status = "cancelled"
       /\ paymentsTable[k].paid_at = Null

\* C9: a notification sets the order of its payment to 'paid' exactly when it
\* maps to payment status paid and leaves it as it was otherwise; no other
\* order and no other payment changes; a notification without transaction_id
\* or matching no payment is rejected and changes nothing.
C9_NotificationFrame ==
  Served("handlePaymentNotification") =>
    LET notified == NotifiedPayments(last.pre.payments, last.input.transaction_id)
    IN IF last.input.transaction_id = Null \/ notified = {}
       THEN last.error # NoError /\ DB = last.pre
       ELSE /\ last.error = NoError
            /\ DOMAIN ordersTable = DOMAIN last.pre.orders
            /\ DOMAIN paymentsTable = DOMAIN last.pre.payments
            /\ \A k \in DOMAIN paymentsTable \ notified :
                 paymentsTable[k] = last.pre.payments[k]
            /\ \A k \in notified :
                 LET o == last.pre.payments[k].order_id
                 IN /\ paymentsTable[k].order_id = o
                    /\ ordersTable[o] =
                         (IF ExpectedPaymentStatus(last.input.transaction_status) = "paid"
                          THEN [last.pre.orders[o] EXCEPT !.status = "paid"]
                          ELSE last.pre.orders[o])
                    /\ \A o2 \in DOMAIN ordersTable \ {o} :
                         ordersTable[o2] = last.pre.orders[o2]

\* a settlement for one of two payments: its pending order becomes paid while
\* the other order, not paid, and the other payment stay as they are
C9_Witness ==
  /\ Succeeded("handlePaymentNotification")
  /\ last.input.transaction_status = "settlement"
  /\ Len(paymentsTable) = 2
  /\ \E k \in NotifiedPayments(last.pre.payments, last.input.transaction_id) :
       LET o == paymentsTable[k].order_id
       IN /\ last.pre.orders[o].status = "pending"
          /\ ordersTable[o].status = "paid"
          /\ \E o2 \in DOMAIN ordersTable \ {o} : ordersTable[o2].status # "paid"

DefaultsOf(addresses, u) ==
  {a \in DOMAIN addresses : addresses[a].user_id = u /\ addresses[a].is_default}

\* C10: no user ever has two default addresses, and an address made default by
\* createAddress, updateAddress or setDefaultAddress is then the only default
\* address of its user.
C10_SingleDefaultAddress ==
  /\ \A u \in Users : Cardinality(DefaultsOf(customerAddressesTable, u)) <= 1
  /\ (Succeeded("createAddress") /\ last.input.is_default)
       => DefaultsOf(customerAddressesTable, last.input.user_id)
            = {Len(customerAddressesTable)}
  /\ (Succeeded("updateAddress") /\ last.input.is_default = <<TRUE>>)
       => DefaultsOf(customerAddressesTable,
                     customerAddressesTable[last.input.id].user_id) = {last.input.id}
  /\ Succeeded("setDefaultAddress")
       => DefaultsOf(customerAddressesTable, last.input.userId) = {last.input.addressId}

\* updateAddress made an address default while another address of the same
\* user was the default one
C10_Witness ==
  /\ Succeeded("updateAddress")
  /\ last.input.is_default = <<TRUE>>
  /\ \E a \in DOMAIN last.pre.addresses :
       /\ a # last.input.id
       /\ last.pre.addresses[a].user_id = last.pre.addresses[last.input.id].user_id
       /\ last.pre.addresses[a].is_default
       /\ ~customerAddressesTable[a].is_default
  /\ \E b \in DOMAIN customerAddressesTable :
       /\ customerAddressesTable[b].user_id # customerAddressesTable[last.input.id].user_id
       /\ customerAddressesTable[b].is_default

\* the single item of a createOrder request with one item
OnlyItem(l) == l.input.items[1]

\* requests p and q are createOrder requests for one item of the same product
\* that have both succeeded after reading the same stock of that product
OrderedFromSameStock(p, q) ==
  /\ procs[p].op = "createOrder" /\ procs[q].op = "createOrder"
  /\ procs[p].pc = "done" /\ procs[q].pc = "done"
  /\ procs[p].error = NoError /\ procs[q].error = NoError
  /\ Len(procs[p].input.items) = 1 /\ Len(procs[q].input.items) = 1
  /\ OnlyItem(procs[p]).product_id = OnlyItem(procs[q]).product_id
  /\ procs[p].productMap[OnlyItem(procs[p]).product_id].stock_quantity
       = procs[q].productMap[OnlyItem(procs[q]).product_id].stock_quantity

\* C6: two createOrder requests for the same product that both read the stock
\* before either wrote it both succeed, whatever their combined quantity, and
\* the stock ends at the stock read minus the quantity of one of them only.
C6_LostStockUpdate ==
  \A p \in Procs, q \in Procs :
    (p # q /\ OrderedFromSameStock(p, q)) =>
      LET pr == OnlyItem(procs[p]).product_id
          read == procs[p].productMap[pr].stock_quantity
      IN /\ procs[p].order_id \in DOMAIN ordersTable
         /\ procs[q].order_id \in DOMAIN ordersTable
         /\ procs[p].order_id # procs[q].order_id
         /\ Stock(DB, pr) \in {read - OnlyItem(procs[p]).quantity,
                               read - OnlyItem(procs[q]).quantity}

\* both requests succeeded with a combined quantity above the stock they read,
\* and the order items sum to more than the stock has been reduced by
C6_Witness ==
  \E p \in Procs, q \in Procs :
    /\ p # q
    /\ OrderedFromSameStock(p, q)
    /\ LET pr == OnlyItem(procs[p]).product_id
           read == procs[p].productMap[pr].stock_quantity
       IN /\ OnlyItem(procs[p]).quantity + OnlyItem(procs[q]).quantity > read
          /\ Stock(DB, pr) = read - OnlyItem(procs[q]).quantity
          /\ OrderedQty(orderItemsTable, procs[p].order_id, pr)
               + OrderedQty(orderItemsTable, procs[q].order_id, pr) > read

\* the cart rows of user u and product p
CartRowsOf(cart, u, p) ==
  {k \in DOMAIN cart.rows : cart.rows[k].user_id = u /\ cart.rows[k].product_id = p}

\* C11: addToCart for a (user, product) pair that has a cart row adds the
\* quantity to that row and returns its id without inserting a row, and no
\* pair ever has two cart rows.
C11_CartItemsMerge ==
  /\ \A u \in Users, p \in ProductIds :
       Cardinality(CartRowsOf(cartItemsTable, u, p)) <= 1
  /\ (/\ Succeeded("addToCart")
      /\ CartRowsOf(last.pre.cartItems, last.input.user_id, last.input.product_id) # {})
     => \E k \in CartRowsOf(last.pre.cartItems, last.input.user_id,
                            last.input.product_id) :
          /\ last.out.cart_item_id = k
          /\ DOMAIN cartItemsTable.rows = DOMAIN last.pre.cartItems.rows
          /\ cartItemsTable.serial = last.pre.cartItems.serial
          /\ cartItemsTable.rows[k] =
               [last.pre.cartItems.rows[k] EXCEPT
                  !.quantity = @ + last.input.quantity]
          /\ \A k2 \in DOMAIN cartItemsTable.rows \ {k} :
               cartItemsTable.rows[k2] = last.pre.cartItems.rows[k2]

\* a second addToCart of a pair, merged into its row, in a cart that holds
\* another user's row of the same product
C11_Witness ==
  /\ Succeeded("addToCart")
  /\ \E k \in CartRowsOf(last.pre.cartItems, last.input.user_id, last.input.product_id) :
       /\ cartItemsTable.rows[k].quantity =
            last.pre.cartItems.rows[k].quantity + last.input.quantity
       /\ \E k2 \in DOMAIN cartItemsTable.rows :
            /\ k2 # k
            /\ cartItemsTable.rows[k2].product_id = last.input.product_id

\* C17: addToCart fails with 'User not found' for a user without a row, and
\* with 'Product not found or not active' for a product that has no row or is
\* not active, leaving every cart as it was; a row addToCart creates or
\* increases is a row of a product that was active when the call was made.
C17_AddToCartValidates ==
  Served("addToCart") =>
    LET noUser == last.input.user_id \notin DOMAIN last.pre.users.rows
        noProduct ==
          \/ last.input.product_id \notin DOMAIN last.pre.products
          \/ ~last.pre.products[last.input.product_id].is_active
    IN /\ noUser => last.error = "User not found" /\ DB = last.pre
       /\ (~noUser /\ noProduct)
            => last.error = "Product not found or not active" /\ DB = last.pre
       /\ last.error = NoError =>
            /\ ~noUser /\ ~noProduct
            /\ last.out.cart_item_id \in DOMAIN cartItemsTable.rows
            /\ cartItemsTable.rows[last.out.cart_item_id].product_id =
                 last.input.product_id
            /\ cartItemsTable.rows[last.out.cart_item_id].user_id = last.input.user_id

\* addToCart of the deactivated product by a customer whose cart holds a row,
\* rejected
C17_Witness ==
  /\ Failed("addToCart")
  /\ last.error = "Product not found or not active"
  /\ last.input.product_id \in DOMAIN productsTable
  /\ ~productsTable[last.input.product_id].is_active
  /\ \E k \in DOMAIN cartItemsTable.rows :
       cartItemsTable.rows[k].user_id = last.input.user_id

\* C18: removeCartItem(cartItemId, userId) deletes the row cartItemId and no
\* other row when the row exists and is userId's; otherwise it fails with
\* 'Cart item not found or does not belong to user' and deletes nothing.
C18_RemoveOnlyOwnCartItem ==
  Served("removeCartItem") =>
    LET k == last.input.cartItemId
        own == /\ k \in DOMAIN last.pre.cartItems.rows
               /\ last.pre.cartItems.rows[k].user_id = last.input.userId
    IN IF own
       THEN /\ last.error = NoError
            /\ cartItemsTable = Delete(last.pre.cartItems, {k})
            /\ k \notin DOMAIN cartItemsTable.rows
            /\ DB = [last.pre EXCEPT !.cartItems = cartItemsTable]
       ELSE /\ last.error = "Cart item not found or does not belong to user"
            /\ DB = last.pre

\* removeCartItem of another customer's row, rejected with the row still there
C18_Witness ==
  /\ Failed("removeCartItem")
  /\ last.input.cartItemId \in DOMAIN cartItemsTable.rows
  /\ cartItemsTable.rows[last.input.cartItemId].user_id # last.input.userId

\* the products of category c
ProductsOf(products, c) == {p \in DOMAIN products : products[p].category_id = c}

\* C12: deleteCategory of a category that has a product fails with 'Cannot
\* delete category with existing products' and deletes nothing, and every
\* product's category_id is the id of a category that exists.
C12_CategoryOfProductExists ==
  /\ (Served("deleteCategory") /\ ProductsOf(last.pre.products, last.input.id) # {})
       => /\ last.error = "Cannot delete category with existing products"
          /\ DB = last.pre
  /\ \A p \in DOMAIN productsTable :
       productsTable[p].category_id \in DOMAIN categoriesTable.rows

\* deleteCategory rejected for a category whose only product is a deactivated
\* one that updateProduct has moved into it
C12_Witness ==
  /\ Failed("deleteCategory")
  /\ last.error = "Cannot delete category with existing products"
  /\ last.input.id # 1
  /\ \A p \in ProductsOf(productsTable, last.input.id) :
       p \in Products /\ ~productsTable[p].is_active
  /\ \E c \in DOMAIN categoriesTable.rows : ProductsOf(productsTable, c) = {}

RECURSIVE ItemsTotal(_, _)
\* the sum of total_price over the rows of `items` of order o
ItemsTotal(items, o) ==
  IF items = <<>> THEN 0
  ELSE (IF Head(items).order_id = o THEN Head(items).total_price ELSE 0)
         + ItemsTotal(Tail(items), o)

\* C13: the rows createOrder inserts carry the product price as it was when
\* createOrder ran (unit_price that price, total_price that price times the
\* quantity, total_amount the sum of the total prices plus the shipping cost),
\* and updateProduct leaves every order and every order item as it was.
C13_PriceSnapshot ==
  /\ Succeeded("createOrder") =>
       LET o == last.out.order_id
       IN /\ \A i \in DOMAIN orderItemsTable :
               orderItemsTable[i].order_id = o =>
                 LET price == last.pre.products[orderItemsTable[i].product_id].price
                 IN /\ orderItemsTable[i].unit_price = price
                    /\ orderItemsTable[i].total_price =
                         price * orderItemsTable[i].quantity
          /\ ordersTable[o].total_amount =
               ItemsTotal(orderItemsTable, o) + ordersTable[o].shipping_cost
  /\ Served("updateProduct") =>
       /\ ordersTable = last.pre.orders
       /\ orderItemsTable = last.pre.orderItems

\* updateProduct changed the price of a product that an order item of an
\* order placed at the earlier price names
C13_Witness ==
  /\ Succeeded("updateProduct")
  /\ last.input.price # Null
  /\ productsTable[last.input.id].price # last.pre.products[last.input.id].price
  /\ \E i \in DOMAIN orderItemsTable :
       /\ orderItemsTable[i].product_id = last.input.id
       /\ orderItemsTable[i].unit_price = last.pre.products[last.input.id].price
       /\ orderItemsTable[i].unit_price # SeedPrice(last.input.id)

\* C14: processPayment for an order that exists and has no payment succeeds
\* and inserts one payment, of that order, with payment_status 'pending',
\* paid_at null and the order's total_amount as amount; no order, and no other
\* payment, changes.
C14_PaymentCreatedPending ==
  (/\ Served("processPayment")
   /\ last.input.order_id \in DOMAIN last.pre.orders
   /\ PaymentsOf(last.pre.payments, last.input.order_id) = {})
  => /\ last.error = NoError
     /\ Len(paymentsTable) = Len(last.pre.payments) + 1
     /\ SubSeq(paymentsTable, 1, Len(last.pre.payments)) = last.pre.payments
     /\ LET payment == paymentsTable[Len(paymentsTable)]
        IN /\ payment.order_id = last.input.order_id
           /\ payment.payment_status = "pending"
           /\ payment.paid_at = Null
           /\ payment.amount = last.pre.orders[last.input.order_id].total_amount
     /\ ordersTable = last.pre.orders
     /\ DB = [last.pre EXCEPT !.payments = paymentsTable]

\* a payment created for an order that is no longer pending, with an amount
\* above the shipping cost, while the other order has a payment
C14_Witness ==
  /\ Succeeded("processPayment")
  /\ Len(paymentsTable) = 2
  /\ paymentsTable[1].order_id # last.input.order_id
  /\ ordersTable[last.input.order_id].status = "shipped"
  /\ paymentsTable[2].amount > ordersTable[last.input.order_id].shipping_cost
  /\ paymentsTable[2].amount = ordersTable[last.input.order_id].total_amount

\* C15: refundPayment fails and changes nothing when the payment does not
\* exist, when its payment_status is not 'paid', or when the requested amount
\* is greater than the payment's amount.
C15_RefundRejected ==
  (/\ Served("refundPayment")
   /\ \/ last.input.paymentId \notin DOMAIN last.pre.payments
      \/ last.pre.payments[last.input.paymentId].payment_status # "paid"
      \/ /\ last.input.amount # Null
         /\ last.input.amount[1] > last.pre.payments[last.input.paymentId].amount)
  => /\ last.error # NoError
     /\ DB = last.pre

\* a refund of more than the amount of a paid payment, rejected
C15_Witness ==
  /\ Failed("refundPayment")
  /\ last.error = "Refund amount cannot exceed payment amount"
  /\ paymentsTable[last.input.paymentId].payment_status = "paid"
  /\ last.input.amount[1] = paymentsTable[last.input.paymentId].amount + 1

\* C16: a successful refundPayment leaves the payment 'cancelled' when the
\* amount is left out or equals the payment's amount, and 'paid' for every
\* requested amount below the payment's amount.
C16_RefundStatus ==
  Succeeded("refundPayment") =>
    LET k == last.input.paymentId
        paymentAmount == last.pre.payments[k].amount
    IN IF last.input.amount = Null \/ last.input.amount[1] = paymentAmount
       THEN paymentsTable[k].payment_status = "cancelled"
       ELSE paymentsTable[k].payment_status = "paid"

\* the users that have the email
UsersWithEmail(users, email) ==
  {u \in DOMAIN users.rows : users.rows[u].email = email}

\* C19: register with an email that a user has fails with 'User with this
\* email already exists' and changes nothing, and no two users have the same
\* email.
C19_RegisterRejectsDuplicateEmail ==
  /\ (Served("register") /\ UsersWithEmail(last.pre.users, last.input.email) # {})
       => /\ last.error = "User with this email already exists"
          /\ DB = last.pre
  /\ \A e \in Emails : Cardinality(UsersWithEmail(usersTable, e)) <= 1

\* register rejected for the email of one of two users, given with a password
\* that is not that user's
C19_Witness ==
  /\ Failed("register")
  /\ Cardinality(DOMAIN usersTable.rows) = 2
  /\ \E u \in UsersWithEmail(usersTable, last.input.email) :
       usersTable.rows[u].password_hash # hashPassword(last.input.password)

\* C20: a failed login throws 'Invalid email or password' and changes nothing,
\* when no user has the email and when a user has it with another password
\* alike.
C20_LoginFailuresAlike ==
  Served("login") =>
    LET users == UsersWithEmail(last.pre.users, last.input.email)
        matching == {u \in users :
                       last.pre.users.rows[u].password_hash =
                         hashPassword(last.input.password)}
    IN /\ DB = last.pre
       /\ matching = {} <=> last.error # NoError
       /\ last.error # NoError => last.error = "Invalid email or password"

\* a login with the email of a user and the password of another user,
\* rejected, while one of the emails has no user
C20_Witness ==
  /\ Failed("login")
  /\ UsersWithEmail(usersTable, last.input.email) # {}
  /\ \E u \in DOMAIN usersTable.rows :
       usersTable.rows[u].password_hash = hashPassword(last.input.password)
  /\ \E e \in Emails : UsersWithEmail(usersTable, e) = {}

\* ---------------------------------------------------------------------
\* the users a token was issued for
IssuedFor(token) == {t.user_id : t \in {t \in issuedTokens : t.token = token}}

\* C21: verifyToken on a token that register or login returned for user U
\* succeeds and yields U while U is in the users table, whatever tokens were
\* issued after it, and fails with 'User not found' once U has been deleted.
C21_IssuedTokenVerifies ==
  Served("verifyToken") =>
    \A u \in IssuedFor(last.input.token) :
      IF u \in DOMAIN last.pre.users.rows
      THEN last.error = NoError /\ last.out.user_id = u
      ELSE last.error = "User not found"

\* verifyToken has accepted a token of a user who has been issued another token
\* as well
C21_Witness ==
  /\ Succeeded("verifyToken")
  /\ \E t \in issuedTokens :
       /\ t.token # last.input.token
       /\ t.user_id \in IssuedFor(last.input.token)

\* ---------------------------------------------------------------------
\* C29: verifyToken returns a user only for a token that register or login
\* has returned; every other token is rejected.
C29_OnlyIssuedTokensVerify ==
  Succeeded("verifyToken") => IssuedFor(last.input.token) # {}

\* ---------------------------------------------------------------------
\* the cost of the i-th service for an input the calculator accepts
CostOf(input, i) ==
  calculateCourierCost(input.courier, input.weight,
                       getDistanceZone(input.origin_city_id,
                                       input.destination_city_id))[i].cost

KnownCities(input) ==
  input.origin_city_id \in DOMAIN CITIES /\ input.destination_city_id \in DOMAIN CITIES

SameCityRoute(input) ==
  KnownCities(input) /\ input.origin_city_id = input.destination_city_id

SameProvinceRoute(input) ==
  /\ KnownCities(input)
  /\ input.origin_city_id # input.destination_city_id
  /\ CITIES[input.origin_city_id] = CITIES[input.destination_city_id]

\* 1 for a route inside a city, 2 for a route inside a province, 3 for every
\* other route
RouteRank(input) ==
  IF SameCityRoute(input) THEN 1 ELSE IF SameProvinceRoute(input) THEN 2 ELSE 3

ZoneOf(input) == getDistanceZone(input.origin_city_id, input.destination_city_id)

\* C22: for one courier and service, the cost calculateShippingCost returns is
\* strictly greater for a request of the same weight in a higher zone (a route
\* inside a city costs less than a route inside a province, which costs less
\* than every other route), is never less for a request of the same route
\* with a greater weight, and is strictly greater when the greater weight has
\* more whole kilograms after rounding up.
C22_CostMonotone ==
  Succeeded("calculateShippingCost") =>
    \A other \in CalculateShippingInputs :
      (other.courier = last.input.courier /\ other.weight > 0) =>
        \A i \in DOMAIN last.out.costs :
          LET cost == last.out.costs[i].cost
          IN /\ (other.weight = last.input.weight
                   /\ (ZoneOf(other) > ZoneOf(last.input)
                         \/ RouteRank(other) > RouteRank(last.input)))
                  => CostOf(other, i) > cost
             /\ (ZoneOf(other) = ZoneOf(last.input)
                   /\ other.weight >= last.input.weight)
                  => CostOf(other, i) >= cost
             /\ (ZoneOf(other) = ZoneOf(last.input)
                   /\ CeilDiv(other.weight, 1000) > CeilDiv(last.input.weight, 1000))
                  => CostOf(other, i) > cost

\* the calculator has priced a route inside a city for a weight under one
\* kilogram
C22_Witness ==
  /\ Succeeded("calculateShippingCost")
  /\ SameCityRoute(last.input)
  /\ last.input.weight < 1000
  /\ \A i \in DOMAIN last.out.costs : last.out.costs[i].cost > 0

\* ---------------------------------------------------------------------
\* C23: calculateShippingCost fails exactly for a weight <= 0 ('Weight must be
\* positive') and for a courier code that is not in the list ('Unsupported
\* courier'); a request with a city id that is not in the city list is priced
\* in zone 7, whatever the other id is.
C23_UnknownCityIsZone7 ==
  Served("calculateShippingCost") =>
    /\ last.error = IF last.input.weight <= 0 THEN "Weight must be positive"
                    ELSE IF last.input.courier \notin COURIERS
                    THEN "Unsupported courier"
                    ELSE NoError
    /\ (last.error = NoError /\ ~KnownCities(last.input)) =>
          last.out.costs = calculateCourierCost(last.input.courier,
                                                last.input.weight, 7)

\* the calculator has priced a route from an unknown city id to the same id
C23_Witness ==
  /\ Succeeded("calculateShippingCost")
  /\ last.input.origin_city_id \notin DOMAIN CITIES
  /\ last.input.origin_city_id = last.input.destination_city_id
  /\ last.out.costs # <<>>

\* ---------------------------------------------------------------------
\* C30: every order in the orders table has at least one order item, and a
\* createOrder request with an empty items list fails and inserts no order.
C30_OrderHasItems ==
  /\ Served("createOrder") =>
        \A o \in DOMAIN ordersTable :
          \E i \in DOMAIN orderItemsTable : orderItemsTable[i].order_id = o
  /\ (Served("createOrder") /\ last.input.items = <<>>) =>
        (last.error # NoError /\ ordersTable = last.pre.orders)

\* ---------------------------------------------------------------------
\* C25: when createOrder succeeds and cancelOrder of the new order follows at
\* once, every product's stock is what it was before createOrder.
C25_RoundTripRestoresStock ==
  Succeeded("createOrderThenCancel") =>
    \A p \in DOMAIN productsTable : Stock(DB, p) = Stock(last.pre, p)

\* ---------------------------------------------------------------------
\* C27: an order that cancelOrder has cancelled stays cancelled when a payment
\* notification is handled afterwards (cancelOrder is the only operation of
\* SpecCancelPay that writes 'cancelled').
C27_CancelledStaysCancelled ==
  Served("handlePaymentNotification") =>
    \A o \in DOMAIN last.pre.orders :
      last.pre.orders[o].status = "cancelled" => ordersTable[o].status = "cancelled"

\* ---------------------------------------------------------------------
\* C24: in every state that interleaved createOrder, cancelOrder, updateProduct
\* and updateProductStock requests can reach, no product has a negative
\* stock_quantity.
C24_StockNeverNegative ==
  \A p \in DOMAIN productsTable : productsTable[p].stock_quantity >= 0

\* two createOrder requests that both read a stock of 1 for the same product
\* have both taken one unit, and the stock is 0
C24_Witness ==
  \E p \in Procs, q \in Procs :
    /\ p # q
    /\ procs[p].op = "createOrder" /\ procs[q].op = "createOrder"
    /\ procs[p].pc = "done" /\ procs[q].pc = "done"
    /\ procs[p].error = NoError /\ procs[q].error = NoError
    /\ OnlyItem(procs[p]).product_id = OnlyItem(procs[q]).product_id
    /\ LET pr == OnlyItem(procs[p]).product_id
       IN /\ procs[p].productMap[pr].stock_quantity = 1
          /\ procs[q].productMap[pr].stock_quantity = 1
          /\ productsTable[pr].stock_quantity = 0

\* ---------------------------------------------------------------------
RECURSIVE CancelledQty(_, _, _)
\* the quantity of product p in the items of the cancelled orders 1..n
CancelledQty(db, n, p) ==
  IF n = 0 THEN 0
  ELSE (IF db.orders[n].status = "cancelled"
        THEN OrderedQty(db.orderItems, n, p) ELSE 0) + CancelledQty(db, n - 1, p)

\* C26: whatever way concurrent cancelOrder requests interleave, once they have
\* all finished the stock of every product is its stock before them plus the
\* item quantities of the cancelled orders, each counted once.
C26_StockRestoredOnce ==
  (\A q \in Procs : ~InFlight(q)) =>
    \A p \in Products :
      Stock(DB, p) = Stock(RaceDB, p) + CancelledQty(DB, Len(ordersTable), p)

\* ---------------------------------------------------------------------
\* C28: whatever way concurrent processPayment requests interleave, no order
\* has more than one payment row.
C28_OnePaymentPerOrder ==
  \A o \in DOMAIN ordersTable :
    Cardinality({k \in DOMAIN paymentsTable : paymentsTable[k].order_id = o}) <= 1

====
